---- MODULE Spec2Model ----
(***************************************************************************)
(* Credential and session lifecycle of Ideas-Hub: refresh-token rotation   *)
(* (app/core/security.py, app/routers/auth_google.py), password login and  *)
(* account lockout (app/crud/auth.py, app/routers/local_auth.py), password *)
(* reset tokens (app/crud/auth.py) and access tokens (app/core/security.py)*)
(*                                                                         *)
(* Time is counted in whole minutes.  Raw tokens (secrets.token_urlsafe)   *)
(* are modelled as fresh naturals; hash_token is an injective tagging.     *)
(* The coroutines of app/core/security.py are modelled as executed to      *)
(* completion at each call site of the handlers, one database round trip   *)
(* per step, every request with its own ORM session.                       *)
(***************************************************************************)
EXTENDS Integers, Sequences, FiniteSets, TLC

VARIABLES
    now,             \* the wall clock (datetime.utcnow), in minutes
    users,           \* table users: the row of each principal
    refresh_tokens,  \* table refresh_tokens: set of rows
    nextId,          \* AUTO_INCREMENT of refresh_tokens.id
    nextRaw,         \* next fresh value of secrets.token_urlsafe
    rreq,            \* POST /auth/refresh requests in flight or finished
    lreq,            \* POST /login requests in flight or finished
    outbox,          \* the reset emails handed to the Notifier
    pcall,           \* the last password-reset call and what it returned
    access,          \* the access tokens issued, with the ttl asked for
    acall,           \* the last verify_token call and what it returned
    loop,            \* the requests that hash or verify a password
    ideas,           \* table ideas: the row of each idea
    preq,            \* reset_password requests in flight or finished
    redis,           \* the rate-limit key of one client, and the requests made
    likes            \* table post_likes, ideas.likes_count, the like requests

vars == <<now, users, refresh_tokens, nextId, nextRaw, rreq, lreq,
          outbox, pcall, access, acall, loop, ideas, preq, redis, likes>>

-----------------------------------------------------------------------------
\* Bounds of the model

NumUsers == 1
NumRefreshReq == 3
MaxLogins == 1
MaxRefreshTicks == 2
NumLoginReq == 1
MaxLoginTokens == 2
MaxLoginTicks == 2
NumPasswords == 2
MaxResetTokens == 2
MaxResetTicks == 1
MaxAccessTokens == 1
MaxTtl == 2
MaxAccessSlack == 1
MaxLegacyTokens == 2
NumHashReq == 2
NumIdeas == 2
MaxVersions == 2
NumConcurrentLogins == 3
NumResetReq == 2
MaxRateTicks == 6
MaxRequests == 7
NumLikers == 2
NumLikeReq == 2

\* Program constants

REFRESH_TOKEN_EXPIRE_DAYS == 7
MAX_FAILED_LOGINS == 5
LOCKOUT_MINUTES == 30
RESET_TOKEN_EXPIRY_HOURS == 1
MAX_RESET_ATTEMPTS == 3
RESET_COOLDOWN_MINUTES == 5
MIN_REQUEST_INTERVAL_MINUTES == 5
RATE_LIMIT == 5
TIME_WINDOW == 60
ACCESS_TOKEN_EXPIRE_MINUTES == 15

MinutesPerDay == 24 * 60
MinutesPerHour == MinutesPerDay \div 24

Users == 1..NumUsers
RefreshReqs == 1..NumRefreshReq
LoginReqs == 1..NumLoginReq
ConcurrentLogins == 1..NumConcurrentLogins
Passwords == 1..NumPasswords

\* a NULL DateTime column
Null == -1
\* a NULL reset_token column
NoToken == << >>
\* an email address of no principal
UnknownEmail == 0

\* pwd_context.hash / pwd_context.verify (argon2): one-way, and verification
\* succeeds exactly for the password that was hashed
hashed_password(password) == <<"argon2", password>>

verify_hashed_password(plain_password, hash) == hash = hashed_password(plain_password)

\* The row of a principal after signup, with the columns' defaults
NewUser(password) ==
    [password_hash |-> hashed_password(password),
     failed_login_attempts |-> 0, last_failed_login_at |-> Null,
     last_login_at |-> Null,
     reset_token |-> NoToken, reset_token_expires |-> Null,
     reset_attempts |-> 0, password_changed_at |-> Null,
     role |-> "user"]

\* db.commit() of a session: the UPDATE carries the attributes the session
\* changed since it loaded the row, the others keep the stored value
Flush(db, loaded, sess) ==
    [f \in DOMAIN db |-> IF sess[f] # loaded[f] THEN sess[f] ELSE db[f]]

\* request.cookies.get("refresh_token") returning None
NoCookie == -1
\* a cookie value the server never issued
BogusRaw == 0

\* hashlib.sha256(token.encode()).hexdigest(): injective on the raw tokens,
\* and never equal to the raw value
\* (mutant) a digest that does not depend on the token
HashOfNothing(raw) == <<"sha256", 0>>

hash_token(raw) == <<"sha256", raw>>

-----------------------------------------------------------------------------
\* Refresh-token store

\* (mutant) the lookup of the legacy app/auth.py, which ignores the flag
RowsWhateverFlag(raw) ==
    {t \in refresh_tokens : t.token = hash_token(raw)}

\* select(RefreshToken).where(token == hashed, revoked == False)
UnrevokedRows(raw) ==
    {t \in refresh_tokens : t.token = hash_token(raw) /\ ~t.revoked}

RowById(id) == {t \in refresh_tokens : t.id = id}

\* An expiry test that never fires
RefreshNeverExpired(t, at) == FALSE

\* An expiry test that always fires
RefreshAlwaysExpired(t, at) == TRUE

\* datetime.now(timezone.utc) > db_refresh_token.expires_at
RefreshExpired(t, at) == at > t.expires_at

\* The row create_refresh_token_entry adds for raw token `raw`
NewRefreshRow(raw, user_id, at) ==
    [id |-> nextId, token |-> hash_token(raw), user_id |-> user_id,
     expires_at |-> at + REFRESH_TOKEN_EXPIRE_DAYS * MinutesPerDay,
     revoked |-> FALSE]

\* The cookies of a session
BothCookies == {"access_token", "refresh_token"}

\* A request of POST /auth/refresh or POST /auth/logout: pc is the last step
\* it completed ("start": none), status its HTTP answer once it has finished
\* (0 while in flight), cleared the cookies the handler has asked the client
\* to delete
IdleReq ==
    [pc |-> "start", raw |-> NoCookie, uid |-> 0, tid |-> 0, newraw |-> 0,
     status |-> 0, cleared |-> {}]

Finished(q) == q.status # 0

\* A request of POST /login: pc is the last step it completed, status its
\* HTTP answer once finished, loaded the row as the session read it, sess the
\* session's copy of the row, path the branch authenticate_user returned from
IdleLogin ==
    [pc |-> "start", email |-> UnknownEmail, password |-> 1,
     loaded |-> NewUser(1), sess |-> NewUser(1), path |-> "none",
     status |-> 0, newraw |-> 0]

InFlight(q) == q.pc # "start" /\ q.status = 0

\* No password-reset call made yet.  op is the operation, n alternates from one
\* call to the next, why is the branch the call returned from: "ok" when
\* verify_reset_token returned the user or reset_password succeeded, resp
\* what the caller is given back
NoCall == [op |-> "none", n |-> 0, why |-> "none", resp |-> "none"]

\* An absent optional argument (None) and a present one
None == << >>
Some(x) == <<x>>

\* The requests that compute or verify a password hash
HashReqs == 1..NumHashReq

\* A request that has not arrived: op is its handler, k the hash calls it has
\* completed, pc its position, on the thread its current hash call runs on
IdleHash == [op |-> "none", k |-> 0, pc |-> "start", on |-> "none"]

Ideas == 1..NumIdeas

\* An idea not created yet
NoIdea == [author_id |-> Null, version |-> 0, is_deleted |-> FALSE]

\* No verify_token call made yet
NoVerify == [n |-> 0, jti |-> 0, at |-> 0, ok |-> FALSE]

\* The reset_password requests; none has started.  raw and password are the
\* arguments, loaded the row as verify_reset_token read it (Null before), sess
\* the session's copy of it, status the HTTP answer once finished
ResetReqs == 1..NumResetReq
IdleReset ==
    [pc |-> "start", raw |-> 0, password |-> 0, uid |-> 0,
     loaded |-> Null, sess |-> Null, status |-> 0]

\* Redis without the rate-limit key.  t is the clock of the Redis server in
\* seconds, count the value of the key, expire_at when it expires, made the
\* times of the requests so far and status the answer to the last one
NoKey == [t |-> 0, count |-> 0, expire_at |-> Null, made |-> << >>, status |-> 0]

\* No like given.  rows is the table post_likes, likes_count the column of
\* ideas, req the POST /posts/{id}/like requests with what each one read
Likers == 1..NumLikers
LikeReqs == 1..NumLikeReq
IdleLike ==
    [pc |-> "start", post |-> 0, user |-> 0, existing |-> FALSE, seen |-> 0,
     status |-> 0]
NoLikes ==
    [rows |-> {}, likes_count |-> [i \in Ideas |-> 0],
     req |-> [k \in LikeReqs |-> IdleLike]]

Init ==
    /\ now = 0
    /\ users = [u \in Users |-> NewUser(1)]
    /\ refresh_tokens = {}
    /\ nextId = 1
    /\ nextRaw = 1
    /\ rreq = [r \in RefreshReqs |-> IdleReq]
    /\ lreq = [l \in LoginReqs \cup ConcurrentLogins |-> IdleLogin]
    /\ outbox = {}
    /\ pcall = NoCall
    /\ access = {}
    /\ acall = NoVerify
    /\ loop = [h \in HashReqs |-> IdleHash]
    /\ ideas = [i \in Ideas |-> NoIdea]
    /\ preq = [p \in ResetReqs |-> IdleReset]
    /\ redis = NoKey
    /\ likes = NoLikes

\* The clock advances by d minutes
Tick(d, max) ==
    /\ now + d <= max
    /\ now' = now + d
    /\ UNCHANGED <<likes, redis, preq, ideas, loop, users, refresh_tokens, nextId, nextRaw, rreq, lreq,
                 outbox, pcall, access, acall>>

\* create_refresh_token_entry as called after a successful login
\* (local_auth.login, auth_google.auth_callback): the row is added and committed
LoginIssue(u) ==
    /\ nextRaw <= MaxLogins
    /\ refresh_tokens' = refresh_tokens \cup {NewRefreshRow(nextRaw, u, now)}
    /\ nextId' = nextId + 1
    /\ nextRaw' = nextRaw + 1
    /\ UNCHANGED <<likes, redis, preq, ideas, loop, now, rreq, users, lreq,
                 outbox, pcall, access, acall>>

\* refresh_access_token up to and including verify_refresh_token.  Request
\* slots are taken in order (they are interchangeable).
RefreshVerify(r, raw) ==
    /\ rreq[r].pc = "start" /\ ~Finished(rreq[r])
    /\ \A q \in 1..(r - 1) : rreq[q].pc # "start" \/ Finished(rreq[q])
    /\ LET rows == UnrevokedRows(raw)
           fail == [rreq EXCEPT ![r] = [@ EXCEPT !.raw = raw, !.status = 401,
                                                 !.cleared = BothCookies]]
       IN  IF raw = NoCookie
           THEN /\ rreq' = [rreq EXCEPT ![r] =
                                [@ EXCEPT !.raw = raw, !.status = 401]]
                /\ UNCHANGED refresh_tokens
           ELSE IF rows = {}
           THEN /\ rreq' = fail
                /\ UNCHANGED refresh_tokens
           ELSE LET t == CHOOSE x \in rows : TRUE
                IN  IF RefreshExpired(t, now)
                    THEN /\ refresh_tokens' = refresh_tokens \ {t}
                         /\ rreq' = fail
                    ELSE /\ rreq' = [rreq EXCEPT ![r] =
                                [@ EXCEPT !.pc = "verified", !.raw = raw,
                                          !.uid = t.user_id, !.tid = t.id]]
                         /\ UNCHANGED refresh_tokens
    /\ UNCHANGED <<likes, redis, preq, ideas, loop, now, nextId, nextRaw, users, lreq,
                 outbox, pcall, access, acall>>

\* revoke_refresh_token(db, refresh_token_id): db.get returns the row object the
\* session loaded in verify_refresh_token (revoked = False there), so the flag is
\* set and the UPDATE committed; an UPDATE of a row deleted meanwhile raises
RefreshRevoke(r) ==
    /\ rreq[r].pc = "verified" /\ ~Finished(rreq[r])
    /\ LET rows == RowById(rreq[r].tid)
       IN  IF rows = {}
           THEN /\ rreq' = [rreq EXCEPT ![r] = [@ EXCEPT !.status = 500]]
                /\ UNCHANGED refresh_tokens
           ELSE /\ refresh_tokens' =
                      {IF t.id = rreq[r].tid THEN [t EXCEPT !.revoked = TRUE]
                       ELSE t : t \in refresh_tokens}
                /\ rreq' = [rreq EXCEPT ![r] = [@ EXCEPT !.pc = "revoked"]]
    /\ UNCHANGED <<likes, redis, preq, ideas, loop, now, nextId, nextRaw, users, lreq,
                 outbox, pcall, access, acall>>

\* db.get(User, user_id), create_access_token, create_refresh_token_entry
RefreshIssue(r) ==
    /\ rreq[r].pc = "revoked" /\ ~Finished(rreq[r])
    /\ IF rreq[r].uid \notin Users
       THEN /\ rreq' = [rreq EXCEPT ![r] = [@ EXCEPT !.status = 401]]
            /\ UNCHANGED <<likes, redis, preq, ideas, loop, refresh_tokens, nextId, nextRaw>>
       ELSE /\ refresh_tokens' =
                  refresh_tokens \cup {NewRefreshRow(nextRaw, rreq[r].uid, now)}
            /\ nextId' = nextId + 1
            /\ nextRaw' = nextRaw + 1
            /\ rreq' = [rreq EXCEPT ![r] =
                            [@ EXCEPT !.pc = "issued", !.status = 200,
                                      !.newraw = nextRaw]]
    /\ UNCHANGED <<likes, redis, preq, ideas, loop, now, users, lreq,
                 outbox, pcall, access, acall>>

\* The commit of revoke_refresh_token raises (the store fails): nothing is
\* written and the handler ends with the unhandled error
RefreshRevokeStorageError(r) ==
    /\ rreq[r].pc = "verified" /\ ~Finished(rreq[r])
    /\ rreq' = [rreq EXCEPT ![r] = [@ EXCEPT !.status = 500]]
    /\ UNCHANGED <<likes, redis, preq, ideas, loop, now, refresh_tokens, nextId, nextRaw, users, lreq,
                 outbox, pcall, access, acall>>

\* The commit of create_refresh_token_entry raises: no row is inserted, and the
\* revocation committed before it stays
RefreshIssueStorageError(r) ==
    /\ rreq[r].pc = "revoked" /\ ~Finished(rreq[r])
    /\ rreq' = [rreq EXCEPT ![r] = [@ EXCEPT !.status = 500]]
    /\ UNCHANGED <<likes, redis, preq, ideas, loop, now, refresh_tokens, nextId, nextRaw, users, lreq,
                 outbox, pcall, access, acall>>

\* The session get_db yields is an AsyncSession (db/database.py), which has
\* no query method
SessionHasQuery == FALSE

\* POST /auth/logout with cookie `raw`: the unrevoked row of the token is
\* looked up with db.query and marked revoked; any exception of that is
\* swallowed; the answer is always 200 and deletes both cookies
Logout(r, raw) ==
    /\ rreq[r].pc = "start" /\ ~Finished(rreq[r])
    /\ \A q \in 1..(r - 1) : rreq[q].pc # "start" \/ Finished(rreq[q])
    /\ refresh_tokens' =
           IF raw # NoCookie /\ SessionHasQuery
           THEN {IF t \in UnrevokedRows(raw) THEN [t EXCEPT !.revoked = TRUE]
                 ELSE t : t \in refresh_tokens}
           ELSE refresh_tokens
    /\ rreq' = [rreq EXCEPT ![r] =
                    [@ EXCEPT !.pc = "logout", !.raw = raw, !.status = 200,
                              !.cleared = BothCookies]]
    /\ UNCHANGED <<likes, redis, preq, ideas, loop, now, nextId, nextRaw, users, lreq, outbox, pcall, access,
                   acall>>

\* The refresh flow is observed at the token lifetime's grain
RefreshStep == REFRESH_TOKEN_EXPIRE_DAYS * MinutesPerDay

NextRefresh ==
    \/ Tick(RefreshStep, MaxRefreshTicks * RefreshStep)
    \/ \E u \in Users : LoginIssue(u)
    \/ \E r \in RefreshReqs, raw \in {NoCookie, BogusRaw} \cup 1..(nextRaw - 1) :
           RefreshVerify(r, raw)
    \/ \E r \in RefreshReqs : RefreshRevoke(r)
    \/ \E r \in RefreshReqs : RefreshIssue(r)

\* Refresh requests served concurrently, the store working
SpecRefresh == Init /\ [][NextRefresh]_vars

NextLogout ==
    \/ NextRefresh
    \/ \E r \in RefreshReqs, raw \in {NoCookie, BogusRaw} \cup 1..(nextRaw - 1) :
           Logout(r, raw)

\* Refresh and logout requests served concurrently
SpecLogout == Init /\ [][NextLogout]_vars

NextRefreshFaulty ==
    \/ NextRefresh
    \/ \E r \in RefreshReqs : RefreshRevokeStorageError(r)
    \/ \E r \in RefreshReqs : RefreshIssueStorageError(r)

\* The same, with commits that may fail
SpecRefreshFaulty == Init /\ [][NextRefreshFaulty]_vars

-----------------------------------------------------------------------------
\* Claims on refresh-token rotation

Issued(r) == rreq[r].status = 200

Consumed(raw) == \E q \in RefreshReqs : Issued(q) /\ rreq[q].raw = raw

\* verify_refresh_token would accept `raw` now
VerifyAccepts(raw) == \E t \in UnrevokedRows(raw) : ~RefreshExpired(t, now)

\* Request r begins in this step, presenting `raw`
Begins(r, raw) ==
    /\ rreq[r].pc = "start" /\ ~Finished(rreq[r])
    /\ rreq'[r] # rreq[r]
    /\ rreq'[r].raw = raw

\* C2: once a refresh presenting T has completed successfully, a refresh that
\* then presents T fails (401) and adds no refresh-token row; and the first
\* refresh that presents the new raw token passes verification unless the new
\* token has expired by then.
C2_ReplayFails_a ==
    \A r \in RefreshReqs : \A raw \in 1..(nextRaw - 1) :
        (Begins(r, raw) /\ Consumed(raw)) =>
            /\ rreq'[r].status = 401
            /\ refresh_tokens' \subseteq refresh_tokens
            /\ nextId' = nextId

C2_NewTokenAccepted_a ==
    \A r \in RefreshReqs : \A q \in RefreshReqs :
        (/\ Issued(q)
         /\ Begins(r, rreq[q].newraw)
         /\ \A o \in RefreshReqs : rreq[o].raw # rreq[q].newraw) =>
            \/ rreq'[r].pc = "verified" /\ rreq'[r].uid = rreq[q].uid
            \/ \E t \in UnrevokedRows(rreq[q].newraw) : RefreshExpired(t, now)

-----------------------------------------------------------------------------
\* Password login and account lockout

\* (mutant) a threshold test that is off by one
StillLockedAboveThreshold(row, at) ==
    /\ row.failed_login_attempts > MAX_FAILED_LOGINS
    /\ row.last_failed_login_at # Null
    /\ at - row.last_failed_login_at < LOCKOUT_MINUTES

\* (mutant) a window test that includes its end
StillLockedClosedWindow(row, at) ==
    /\ row.failed_login_attempts >= MAX_FAILED_LOGINS
    /\ row.last_failed_login_at # Null
    /\ at - row.last_failed_login_at <= LOCKOUT_MINUTES

\* authenticate_user, "Still locked": the three nested tests
StillLocked(row, at) ==
    /\ row.failed_login_attempts >= MAX_FAILED_LOGINS
    /\ row.last_failed_login_at # Null
    /\ at - row.last_failed_login_at < LOCKOUT_MINUTES

\* authenticate_user, the else branch of "if user.last_failed_login_at"
ResetIfNoTimestamp(row) ==
    IF row.failed_login_attempts >= MAX_FAILED_LOGINS
       /\ row.last_failed_login_at = Null
    THEN [row EXCEPT !.failed_login_attempts = 0, !.last_failed_login_at = Null]
    ELSE row

\* (mutant) an answer of its own for an email that matches no row
LoginFailureStatusLeaky(found, row) ==
    IF ~found THEN 404
    ELSE IF row.failed_login_attempts >= MAX_FAILED_LOGINS THEN 403 ELSE 401

\* login, after authenticate_user returned None: 403 when the row the session
\* holds counts five failures or more, else 401
LoginFailureStatus(found, row) ==
    IF found /\ row.failed_login_attempts >= MAX_FAILED_LOGINS THEN 403 ELSE 401

\* login up to the password verification of authenticate_user: the row is
\* selected and the lockout tested.  One login is evaluated at a time, in the
\* lowest request slot (the slots are interchangeable).
LoginLoad(l, email, password) ==
    /\ \A o \in LoginReqs : ~InFlight(lreq[o])
    /\ \A o \in 1..(l - 1) : InFlight(lreq[o])
    /\ nextRaw <= MaxLoginTokens
    /\ LET q == [IdleLogin EXCEPT !.email = email, !.password = password]
       IN  IF email \notin Users
           THEN lreq' = [lreq EXCEPT ![l] =
                    [q EXCEPT !.path = "unknown",
                              !.status = LoginFailureStatus(FALSE, q.sess)]]
           ELSE LET row == users[email]
                IN  IF StillLocked(row, now)
                    THEN lreq' = [lreq EXCEPT ![l] =
                             [q EXCEPT !.loaded = row, !.sess = row,
                                       !.path = "locked",
                                       !.status = LoginFailureStatus(TRUE, row)]]
                    ELSE lreq' = [lreq EXCEPT ![l] =
                             [q EXCEPT !.pc = "loaded", !.loaded = row,
                                       !.sess = ResetIfNoTimestamp(row)]]
    /\ UNCHANGED <<likes, redis, preq, ideas, loop, now, users, refresh_tokens, nextId, nextRaw, rreq,
                 outbox, pcall, access, acall>>

\* authenticate_user from the password verification on, and the answer of
\* login when it returned None
LoginCommit(l) ==
    /\ lreq[l].pc = "loaded" /\ InFlight(lreq[l])
    /\ LET q == lreq[l]
           u == q.email
       IN  IF verify_hashed_password(q.password, q.sess.password_hash)
           THEN LET s1 == [q.sess EXCEPT !.last_login_at = now,
                                         !.failed_login_attempts = 0,
                                         !.last_failed_login_at = Null]
                IN  /\ users' = [users EXCEPT ![u] = Flush(@, q.loaded, s1)]
                    /\ lreq' = [lreq EXCEPT ![l] =
                           [q EXCEPT !.pc = "authenticated", !.sess = s1,
                                     !.path = "valid"]]
           ELSE LET s1 == [q.sess EXCEPT
                               !.failed_login_attempts = @ + 1,
                               !.last_failed_login_at = now]
                IN  /\ users' = [users EXCEPT ![u] = Flush(@, q.loaded, s1)]
                    /\ lreq' = [lreq EXCEPT ![l] =
                           [q EXCEPT !.sess = s1, !.path = "invalid",
                                     !.status = LoginFailureStatus(TRUE, s1)]]
    /\ UNCHANGED <<likes, redis, preq, ideas, loop, now, refresh_tokens, nextId, nextRaw, rreq,
                 outbox, pcall, access, acall>>

\* login after authenticate_user returned the user: create_refresh_token_entry,
\* create_access_token, the cookies
LoginIssueTokens(l) ==
    /\ lreq[l].pc = "authenticated" /\ InFlight(lreq[l])
    /\ refresh_tokens' =
           refresh_tokens \cup {NewRefreshRow(nextRaw, lreq[l].email, now)}
    /\ nextId' = nextId + 1
    /\ nextRaw' = nextRaw + 1
    /\ lreq' = [lreq EXCEPT ![l] =
                    [@ EXCEPT !.pc = "issued", !.status = 200, !.newraw = nextRaw]]
    /\ UNCHANGED <<likes, redis, preq, ideas, loop, now, users, rreq,
                 outbox, pcall, access, acall>>

\* The login flow is observed at half the lockout window's grain
LoginStep == LOCKOUT_MINUTES \div 2

NextLogin ==
    \/ Tick(LoginStep, MaxLoginTicks * LoginStep)
    \/ \E l \in LoginReqs, e \in Users \cup {UnknownEmail}, p \in Passwords :
           LoginLoad(l, e, p)
    \/ \E l \in LoginReqs : LoginCommit(l)
    \/ \E l \in LoginReqs : LoginIssueTokens(l)

\* Password logins, evaluated one after another
SpecLogin == Init /\ [][NextLogin]_vars

-----------------------------------------------------------------------------
\* Claims on login and lockout

\* The lockout condition as the claims state it
LockedAt(u, at) ==
    /\ users[u].failed_login_attempts >= 5
    /\ users[u].last_failed_login_at # Null
    /\ at - users[u].last_failed_login_at < 30

\* The password p is the one principal u has set
RightPassword(u, p) == users[u].password_hash = hashed_password(p)

\* Request l begins in this step, for principal u
LoginBegins(l, u) ==
    /\ ~InFlight(lreq[l])
    /\ lreq'[l] # lreq[l]
    /\ lreq'[l].email = u

\* Request l has its password checked in this step
LoginChecked(l) ==
    /\ lreq[l].pc = "loaded" /\ InFlight(lreq[l])
    /\ lreq'[l] # lreq[l]

\* C4: each failed login that is evaluated adds one to the counter and stamps
\* the failure, so five consecutive failures lock the account; an attempt
\* evaluated with the counter at 5 or more inside the 30 minutes is answered
\* AccountLocked (403) and changes nothing; an attempt with the right password
\* evaluated after the window is not refused, succeeds (200 with a refresh
\* token), and resets the counter to 0 and the failure timestamp to NULL.
C4_Begin_a ==
    \A l \in LoginReqs : \A u \in Users :
        LoginBegins(l, u) =>
            /\ LockedAt(u, now) =>
                   /\ lreq'[l].status = 403
                   /\ users' = users
                   /\ refresh_tokens' = refresh_tokens
            /\ (/\ users[u].failed_login_attempts >= 5
                /\ ~LockedAt(u, now)) =>
                   /\ lreq'[l].pc = "loaded"
                   /\ lreq'[l].status = 0

C4_Check_a ==
    \A l \in LoginReqs :
        LoginChecked(l) =>
            LET u == lreq[l].email
            IN  IF RightPassword(u, lreq[l].password)
                THEN /\ users'[u].failed_login_attempts = 0
                     /\ users'[u].last_failed_login_at = Null
                     /\ lreq'[l].pc = "authenticated"
                     /\ lreq'[l].status = 0
                ELSE /\ users'[u].failed_login_attempts =
                            users[u].failed_login_attempts + 1
                     /\ users'[u].last_failed_login_at = now
                     /\ lreq'[l].status \in {401, 403}

C4_Issue_a ==
    \A l \in LoginReqs :
        (lreq[l].pc = "authenticated" /\ lreq'[l] # lreq[l]) =>
            /\ lreq'[l].status = 200
            /\ \E t \in refresh_tokens' \ refresh_tokens :
                   /\ t.token = hash_token(lreq'[l].newraw)
                   /\ t.user_id = lreq[l].email

C4_LockoutAfterFive ==
    [][C4_Begin_a /\ C4_Check_a /\ C4_Issue_a]_vars

\* A state where, after exactly five failures and the lockout window, an
\* attempt with the right password has succeeded and reset the counter
C4_Witness ==
    \E k \in LoginReqs :
        /\ lreq[k].status = 200
        /\ lreq[k].loaded.failed_login_attempts = 5
        /\ lreq[k].loaded.last_failed_login_at # Null
        /\ users[lreq[k].email].failed_login_attempts = 0
        /\ users[lreq[k].email].last_failed_login_at = Null

\* C5: a failed attempt evaluated with the counter at 5 or more after the
\* window has elapsed finds the counter healed to 0 first: it leaves the
\* counter at 1 and is answered InvalidCredentials (401), not AccountLocked.
C5_LazyHeal ==
    \A l \in LoginReqs :
        (/\ lreq[l].path = "invalid"
         /\ lreq[l].loaded.failed_login_attempts >= 5) =>
            /\ lreq[l].sess.failed_login_attempts = 1
            /\ lreq[l].status = 401

\* C6: authenticate_user refuses a login as locked exactly when, as the login
\* is evaluated, the counter is 5 or more and less than 30 minutes have passed
\* since the last failure; such a login is answered 403, and it adds no
\* refresh-token row and issues no token, whichever password it carries.
C6_Begin_a ==
    \A l \in LoginReqs : \A u \in Users :
        LoginBegins(l, u) =>
            /\ (lreq'[l].path = "locked") <=> LockedAt(u, now)
            /\ lreq'[l].path = "locked" =>
                   /\ refresh_tokens' = refresh_tokens
                   /\ nextRaw' = nextRaw
                   /\ lreq'[l].status = 403

C6_NoTokenWhenLocked_s ==
    \A l \in LoginReqs :
        lreq[l].path = "locked" =>
            /\ lreq[l].newraw = 0
            /\ lreq[l].pc = "start"
            /\ lreq[l].status # 200

C6_LockedIffAndNoToken ==
    [][C6_Begin_a]_vars /\ []C6_NoTokenWhenLocked_s

\* A locked login that carried the right password
C6_Witness ==
    \E l \in LoginReqs :
        /\ lreq[l].path = "locked"
        /\ lreq[l].email \in Users
        /\ RightPassword(lreq[l].email, lreq[l].password)

-----------------------------------------------------------------------------
\* Access tokens (app/core/security.py)

\* The time-to-live arguments tried: none, zero, negative and positive minutes
Ttls == {None} \cup {Some(d) : d \in (0 - 1)..MaxTtl}

\* `if expires_delta:` -- a timedelta is false when it is zero, as None is
Truthy(expires_delta) == expires_delta # None /\ expires_delta[1] # 0

\* The claims create_access_token signs: a copy of data, updated with iat, exp
\* and a fresh jti
create_access_token(data, expires_delta, at, jti) ==
    LET expire == IF Truthy(expires_delta)
                  THEN at + expires_delta[1]
                  ELSE at + ACCESS_TOKEN_EXPIRE_MINUTES
    IN  [iat |-> at, exp |-> expire, jti |-> jti, key |-> "SECRET_KEY"] @@ data

\* The same claims signed with another key
Forged(token) == [token EXCEPT !.key = "other"]

\* A verification that also asks the store for a live refresh-token record
verify_token_by_lookup(token, at) ==
    /\ token.key = "SECRET_KEY" /\ ~(token.exp < at)
    /\ \E t \in refresh_tokens : ~t.revoked

\* jwt.decode: the signature must verify and exp must not be before the clock
verify_token(token, at) == token.key = "SECRET_KEY" /\ ~(token.exp < at)

\* create_access_token is called for principal `sub` with time-to-live `ttl`
AccessCreate(sub, ttl) ==
    /\ Cardinality(access) < MaxAccessTokens
    /\ access' = access \cup
           {[tok |-> create_access_token([sub |-> sub], ttl, now,
                                         Cardinality(access) + 1),
             ttl |-> ttl]}
    /\ UNCHANGED <<likes, redis, preq, ideas, loop, now, users, refresh_tokens, nextId, nextRaw, rreq, lreq,
                   outbox, pcall, acall>>

\* verify_token is called with an issued token, or with a forgery of it
AccessVerify(a, forged) ==
    /\ a \in access
    /\ acall' = [n |-> 1 - acall.n, jti |-> a.tok.jti, at |-> now,
                 ok |-> verify_token(IF forged THEN Forged(a.tok) ELSE a.tok,
                                     now)]
    /\ UNCHANGED <<likes, redis, preq, ideas, loop, now, users, refresh_tokens, nextId, nextRaw, rreq, lreq,
                   outbox, pcall, access>>

NextAccess ==
    \/ Tick(1, MaxAccessSlack)
    \/ Tick(ACCESS_TOKEN_EXPIRE_MINUTES,
            ACCESS_TOKEN_EXPIRE_MINUTES + MaxAccessSlack)
    \/ \E sub \in Users, ttl \in Ttls : AccessCreate(sub, ttl)
    \/ \E a \in access, forged \in BOOLEAN : AccessVerify(a, forged)

\* Access tokens issued and verified in the first minutes, and at the same
\* instants one default lifetime later
SpecAccess == Init /\ [][NextAccess]_vars

-----------------------------------------------------------------------------
\* Claims on access tokens

\* C7: an access token issued by create_access_token with a time-to-live of
\* zero fails verify_token immediately after issuance: a genuine token issued
\* with ttl zero is rejected by every verification made later than its iat.
C7_ZeroTtlFailsAtOnce ==
    \A a \in access :
        ( /\ a.ttl = Some(0)
          /\ acall.jti = a.tok.jti
          /\ acall.at > a.tok.iat ) => ~acall.ok

-----------------------------------------------------------------------------
\* Password reset (app/crud/auth.py AuthService)

\* The weak password, which validate_password_strength rejects
WeakPassword == 0

MIN_PASSWORD_LENGTH == 8
MAX_PASSWORD_LENGTH == 128

\* The characters for which c.isupper(), c.islower(), c.isdigit() hold, among
\* the characters the passwords of the model are made of
UpperChars == {"A", "D", "O", "P", "R", "S", "W"}
LowerChars == {"a", "b", "c", "d", "e", "g", "n", "o", "p", "q", "r", "s",
               "t", "w", "y"}
DigitChars == {"0", "1", "2", "3", "4", "5", "6", "7", "8"}

\* special_chars = "!@#$%^&*()_+-=[]{}|;:,.<>?"
special_chars ==
    {"!", "@", "#", "$", "%", "^", "&", "*", "(", ")", "_", "+", "-", "=",
     "[", "]", "{", "}", "|", ";", ":", ",", ".", "<", ">", "?"}

\* Punctuation outside special_chars
OtherChars == {"~", "/"}

\* c.lower()
lower(c) ==
    CASE c = "A" -> "a" [] c = "D" -> "d" [] c = "O" -> "o" [] c = "P" -> "p"
      [] c = "R" -> "r" [] c = "S" -> "s" [] c = "W" -> "w" [] OTHER -> c

\* password.lower()
LowerOf(password) == [i \in 1..Len(password) |-> lower(password[i])]

\* any(c in class for c in password)
AnyIn(password, class) == \E i \in 1..Len(password) : password[i] \in class

common_passwords ==
    {<<"p", "a", "s", "s", "w", "o", "r", "d">>,
     <<"1", "2", "3", "4", "5", "6", "7", "8">>,
     <<"q", "w", "e", "r", "t", "y">>,
     <<"a", "b", "c", "1", "2", "3">>,
     <<"p", "a", "s", "s", "w", "o", "r", "d", "1", "2", "3">>}

\* errors.append(msg) when the test holds
AppendIf(test, msg) == IF test THEN <<msg>> ELSE << >>

\* A validation that stops at the first rule violated
validate_first_rule_only(password) ==
    IF Len(password) < MIN_PASSWORD_LENGTH
    THEN <<"Password must be at least 8 characters long">>
    ELSE IF Len(password) > MAX_PASSWORD_LENGTH
    THEN <<"Password must not exceed 128 characters">>
    ELSE IF ~AnyIn(password, UpperChars)
    THEN <<"Password must contain at least one uppercase letter">>
    ELSE IF ~AnyIn(password, LowerChars)
    THEN <<"Password must contain at least one lowercase letter">>
    ELSE IF ~AnyIn(password, DigitChars)
    THEN <<"Password must contain at least one number">>
    ELSE IF ~AnyIn(password, special_chars)
    THEN <<"Password must contain at least one special character">>
    ELSE IF LowerOf(password) \in common_passwords
    THEN <<"Password is too common">>
    ELSE << >>

\* validate_password_strength: every test is made, each appends its message
validate_password_strength(password) ==
    AppendIf(Len(password) < MIN_PASSWORD_LENGTH,
             "Password must be at least 8 characters long")
    \o AppendIf(Len(password) > MAX_PASSWORD_LENGTH,
                "Password must not exceed 128 characters")
    \o AppendIf(~AnyIn(password, UpperChars),
                "Password must contain at least one uppercase letter")
    \o AppendIf(~AnyIn(password, LowerChars),
                "Password must contain at least one lowercase letter")
    \o AppendIf(~AnyIn(password, DigitChars),
                "Password must contain at least one number")
    \o AppendIf(~AnyIn(password, special_chars),
                "Password must contain at least one special character")
    \o AppendIf(LowerOf(password) \in common_passwords,
                "Password is too common")

\* n copies of character c
Repeat(c, n) == [i \in 1..n |-> c]

\* The characters of the password the reset flow names p: the weak one is
\* "password", the others are "Str0ng!Pass" followed by p - 1 letters
PlainPassword(p) ==
    IF p = WeakPassword
    THEN <<"p", "a", "s", "s", "w", "o", "r", "d">>
    ELSE <<"S", "t", "r", "0", "n", "g", "!", "P", "a", "s", "s">>
         \o Repeat("a", p - 1)

\* validate_password_strength of each password the reset flow names
PasswordViolations ==
    [p \in {WeakPassword} \cup Passwords |->
         validate_password_strength(PlainPassword(p))]

\* timedelta(hours=RESET_TOKEN_EXPIRY_HOURS), in minutes
ResetExpiry == RESET_TOKEN_EXPIRY_HOURS * MinutesPerHour

\* (mutant) the cooldown comparison turned round
InCooldownFlipped(row, at) ==
    /\ row.reset_token_expires # Null
    /\ at - (row.reset_token_expires - ResetExpiry) > RESET_COOLDOWN_MINUTES

\* utcnow() - (reset_token_expires - 1 hour) < 5 minutes
InCooldown(row, at) ==
    /\ row.reset_token_expires # Null
    /\ at - (row.reset_token_expires - ResetExpiry) < RESET_COOLDOWN_MINUTES

\* user.reset_token_expires and user.reset_token_expires < utcnow()
ResetTokenExpired(row, at) ==
    row.reset_token_expires # Null /\ row.reset_token_expires < at

\* (mutant) the reset state left in place
KeepResetToken(row) == row

\* user.reset_token = None; user.reset_token_expires = None
ClearResetToken(row) ==
    [row EXCEPT !.reset_token = NoToken, !.reset_token_expires = Null]

\* user.reset_attempts >= MAX_RESET_ATTEMPTS
AttemptsExhausted(row) == row.reset_attempts >= MAX_RESET_ATTEMPTS

\* select(User).where(User.reset_token == token_hash)
\* (mutant) a lookup that finds whoever holds a reset token, whatever the digest
AnyResetTokenHolder(raw) ==
    {u \in Users : users[u].reset_token # NoToken}

\* select(User).where(User.reset_token == token_hash)
ResetTokenOwners(raw) ==
    {u \in Users : users[u].reset_token = hash_token(raw)}

\* verify_reset_token: the branch it returns from, the user it found and the
\* users table it leaves committed
verify_reset_token(raw_token, increment_attempts) ==
    LET owners == ResetTokenOwners(raw_token) IN
    IF owners = {}
    THEN [why |-> "notfound", uid |-> UnknownEmail, users |-> users]
    ELSE LET u == CHOOSE x \in owners : TRUE
             row == users[u]
             counted == [row EXCEPT !.reset_attempts = @ + 1]
         IN  IF ResetTokenExpired(row, now)
             THEN [why |-> "expired", uid |-> u,
                   users |-> [users EXCEPT ![u] = ClearResetToken(row)]]
             ELSE IF ~increment_attempts
             THEN [why |-> "ok", uid |-> u, users |-> users]
             ELSE IF AttemptsExhausted(counted)
             THEN [why |-> "attempts", uid |-> u,
                   users |-> [users EXCEPT ![u] = ClearResetToken(counted)]]
             ELSE [why |-> "ok", uid |-> u,
                   users |-> [users EXCEPT ![u] = counted]]

\* The raw tokens a caller can present: a made-up one or one that was emailed
RawTokens == {BogusRaw} \cup {m.raw : m \in outbox}

\* The dict request_password_reset builds first and returns from every branch
success_message == "generic success"

\* (mutant) an unknown email is told apart
RequestResponseLeaky(why) ==
    IF why = "nouser" THEN "no such account" ELSE success_message

\* What request_password_reset returns from the branch `why`
RequestResponse(why) == success_message

\* request_password_reset(email).  Principals are interchangeable: the
\* lower-numbered ones are the first to ask
RequestPasswordReset(email) ==
    LET issue == email \in Users /\ ~InCooldown(users[email], now)
        why == IF email \notin Users THEN "nouser"
               ELSE IF issue THEN "sent" ELSE "cooldown"
    IN  /\ issue => nextRaw <= MaxResetTokens
        /\ \A v \in 1..(email - 1) : \E m \in outbox : m.to = v
        /\ pcall' = [op |-> "request", n |-> 1 - pcall.n, why |-> why,
                     resp |-> RequestResponse(why)]
        /\ IF issue
           THEN /\ users' = [users EXCEPT
                       ![email].reset_token = hash_token(nextRaw),
                       ![email].reset_token_expires = now + ResetExpiry,
                       ![email].reset_attempts = 0]
                /\ outbox' = outbox \cup
                       {[to |-> email, raw |-> nextRaw]}
                /\ nextRaw' = nextRaw + 1
           ELSE UNCHANGED <<likes, redis, preq, ideas, loop, users, outbox, nextRaw>>
        /\ UNCHANGED <<likes, redis, preq, ideas, loop, now, refresh_tokens, nextId, rreq, lreq, access,
                       acall>>

\* request_password_reset when the commit raises SQLAlchemyError: rolled back,
\* logged, and the same message returned
RequestStorageError(email) ==
    /\ email \in Users
    /\ ~InCooldown(users[email], now)
    /\ pcall' = [op |-> "request", n |-> 1 - pcall.n, why |-> "dberror",
                 resp |-> RequestResponse("dberror")]
    /\ UNCHANGED <<likes, redis, preq, ideas, loop, now, users, refresh_tokens, nextId, nextRaw, rreq, lreq,
                   outbox, access, acall>>

\* request_password_reset when send_reset_email raises: the token is already
\* committed, the exception is logged, and the same message returned
RequestNotifierFailure(email) ==
    /\ email \in Users
    /\ ~InCooldown(users[email], now)
    /\ nextRaw <= MaxResetTokens
    /\ \A v \in 1..(email - 1) : \E m \in outbox : m.to = v
    /\ users' = [users EXCEPT
           ![email].reset_token = hash_token(nextRaw),
           ![email].reset_token_expires = now + ResetExpiry,
           ![email].reset_attempts = 0]
    /\ nextRaw' = nextRaw + 1
    /\ pcall' = [op |-> "request", n |-> 1 - pcall.n, why |-> "mailerror",
                 resp |-> RequestResponse("mailerror")]
    /\ UNCHANGED <<likes, redis, preq, ideas, loop, now, refresh_tokens, nextId, rreq, lreq, outbox, access,
                   acall>>

\* verify_reset_token(raw_token, db, increment_attempts)
VerifyResetToken(raw, inc) ==
    LET res == verify_reset_token(raw, inc) IN
    /\ raw \in RawTokens
    /\ users' = res.users
    /\ pcall' = [op |-> "verify", n |-> 1 - pcall.n, why |-> res.why,
                 resp |-> IF res.why = "ok" THEN "user" ELSE "None"]
    /\ UNCHANGED <<likes, redis, preq, ideas, loop, now, refresh_tokens, nextId, nextRaw, rreq, lreq, outbox,
                   access, acall>>

\* POST /auth/verify-reset-token: the route calls verify_reset_token with
\* the default increment_attempts=True
VerifyResetTokenRoute(raw) == VerifyResetToken(raw, TRUE)

\* (mutant) a reset_password whose token check counts as an attempt
ResetCountsAsAttempt == TRUE

\* reset_password checks the token with increment_attempts=False
ResetIncrementsAttempts == FALSE

\* (mutant) the password is set but the reset token is left in place
CompleteResetKeepsToken(row, new_password, at) ==
    [row EXCEPT !.password_hash = hashed_password(new_password),
                !.reset_attempts = 0,
                !.password_changed_at = at]

\* The row reset_password commits on success: new hash, reset fields cleared
CompleteReset(row, new_password, at) ==
    [row EXCEPT !.password_hash = hashed_password(new_password),
                !.reset_token = NoToken,
                !.reset_token_expires = Null,
                !.reset_attempts = 0,
                !.password_changed_at = at]

\* reset_password(token, new_password, confirm_password)
ResetPassword(raw, new_password, confirm_password) ==
    LET res == verify_reset_token(raw, ResetIncrementsAttempts)
        early == IF new_password # confirm_password THEN "mismatch"
                 ELSE IF PasswordViolations[new_password] # << >>
                 THEN "weak" ELSE "none"
        why == IF early # "none" THEN early
               ELSE IF res.why # "ok" THEN res.why
               ELSE IF verify_hashed_password(new_password,
                           res.users[res.uid].password_hash)
               THEN "same" ELSE "ok"
    IN  /\ raw \in RawTokens
        /\ users' =
               IF early # "none" THEN users
               ELSE IF why # "ok" THEN res.users
               ELSE [res.users EXCEPT
                        ![res.uid] = CompleteReset(@, new_password, now)]
        /\ pcall' = [op |-> "consume", n |-> 1 - pcall.n, why |-> why,
                     resp |-> IF why = "ok" THEN "reset" ELSE "400"]
        /\ UNCHANGED <<likes, redis, preq, ideas, loop, now, refresh_tokens, nextId, nextRaw, rreq, lreq,
                       outbox, access, acall>>

\* The arguments reset_password is tried with: any token with any strong
\* password confirmed correctly, a weak password, and a pair of passwords that
\* do not match (the token is not looked at in the last two)
ResetInputs ==
    {[raw |-> raw, new |-> p, confirm |-> p] :
         raw \in RawTokens, p \in Passwords}
    \cup {[raw |-> BogusRaw, new |-> WeakPassword, confirm |-> WeakPassword],
          [raw |-> BogusRaw, new |-> 1, confirm |-> WeakPassword]}

\* The reset flow is observed in the first cooldown windows, and at the same
\* instants one expiry period later
ResetStep == RESET_COOLDOWN_MINUTES

NextReset ==
    \/ Tick(ResetStep, MaxResetTicks * ResetStep)
    \/ Tick(ResetExpiry, ResetExpiry + MaxResetTicks * ResetStep)
    \/ \E e \in Users \cup {UnknownEmail} : RequestPasswordReset(e)
    \/ \E raw \in RawTokens, inc \in BOOLEAN : VerifyResetToken(raw, inc)
    \/ \E i \in ResetInputs : ResetPassword(i.raw, i.new, i.confirm)

\* Password-reset calls, each run to completion in its own session
SpecReset == Init /\ [][NextReset]_vars

NextResetFaulty ==
    \/ NextReset
    \/ \E e \in Users : RequestStorageError(e)
    \/ \E e \in Users : RequestNotifierFailure(e)

\* The same, where the database and the Notifier may fail
SpecResetFaulty == Init /\ [][NextResetFaulty]_vars

-----------------------------------------------------------------------------
\* Claims on password reset

\* The last call returned the user (verify) or succeeded (reset_password)
Returned == pcall.why = "ok"

\* Principal u holds raw token `raw`, and its hour has not run out
HoldsUnexpired(u, raw) ==
    /\ users[u].reset_token = hash_token(raw)
    /\ now <= users[u].reset_token_expires

\* Principal u holds raw token `raw`, and its hour has run out
HoldsExpired(u, raw) ==
    /\ users[u].reset_token = hash_token(raw)
    /\ now > users[u].reset_token_expires

\* Principal u's reset token and expiry are cleared after the step
ResetCleared(u) ==
    /\ users'[u].reset_token = NoToken
    /\ users'[u].reset_token_expires = Null

\* The step is a verification of `raw`, with or without increment
Verifies(raw) ==
    pcall'.op = "verify" /\ \E inc \in BOOLEAN : VerifyResetToken(raw, inc)

\* The step is a reset_password with `raw` and a well-formed new password
Consumes(raw) ==
    pcall'.op = "consume" /\ \E p \in Passwords : ResetPassword(raw, p, p)

\* C8: verify_reset_token with increment, called on a valid unexpired reset
\* token, fails only when the incremented attempt counter exceeds the maximum
\* of 3 (so the first three verifications succeed), and when it fails it
\* clears the stored reset token and expiry.
C8_Verify_a ==
    \A u \in Users, raw \in RawTokens :
        ( /\ pcall'.op = "verify"
          /\ HoldsUnexpired(u, raw)
          /\ VerifyResetToken(raw, TRUE) )
        => /\ Returned' <=> users[u].reset_attempts + 1 <= MAX_RESET_ATTEMPTS
           /\ ~Returned' => ResetCleared(u)

C8_FourthVerificationFails == [][C8_Verify_a]_vars

\* An emailed raw token that no principal holds any more
Dead(raw) ==
    /\ raw \in {m.raw : m \in outbox}
    /\ \A u \in Users : users[u].reset_token # hash_token(raw)

\* A verification or a reset_password of a token past its hour fails, and a
\* verification clears the holder's reset token and expiry
C9_Expired_a ==
    \A u \in Users, raw \in RawTokens :
        HoldsExpired(u, raw) =>
            /\ Verifies(raw) => ~Returned' /\ ResetCleared(u)
            /\ Consumes(raw) => ~Returned'

\* A token no principal holds fails verification and reset_password, changes
\* no principal, and is never held again
C9_Dead_a ==
    \A raw \in RawTokens :
        Dead(raw) =>
            /\ Dead(raw)'
            /\ (Verifies(raw) \/ Consumes(raw))
               => ~Returned' /\ users' = users

\* C9: a reset token verified, with or without increment, after its 1-hour
\* expiry fails and clears the principal's stored reset token and expiry;
\* every subsequent verification or reset_password with the same token also
\* fails.
C9_ExpiredTokenCleared == [][C9_Expired_a /\ C9_Dead_a]_vars

\* A token was verified past its hour: the call failed, and the token that was
\* emailed is held by no one
C9_Witness ==
    /\ pcall.op = "verify"
    /\ pcall.why = "expired"
    /\ ~Returned
    /\ \E m \in outbox : /\ Dead(m.raw)
                         /\ users[m.to].reset_token = NoToken
                         /\ users[m.to].reset_token_expires = Null
                         /\ users[m.to].reset_attempts < MAX_RESET_ATTEMPTS
                         /\ users[m.to].password_changed_at = Null

\* The raw tokens that verify for principal u
ValidFor(u) ==
    {m.raw : m \in {x \in outbox : /\ x.to = u
                                   /\ HoldsUnexpired(u, x.raw)}}

\* Principal u's current reset token was issued less than 5 minutes ago
IssuedWithinCooldown(u) ==
    /\ users[u].reset_token # NoToken
    /\ now - (users[u].reset_token_expires - ResetExpiry)
           < RESET_COOLDOWN_MINUTES

C10_Request_a ==
    \A u \in Users :
        ( /\ pcall'.op = "request"
          /\ IssuedWithinCooldown(u)
          /\ RequestPasswordReset(u) )
        => /\ users' = users
           /\ outbox' = outbox
           /\ nextRaw' = nextRaw
           /\ ValidFor(u)' = ValidFor(u)
           /\ Cardinality(ValidFor(u)') = 1

\* C10: a password-reset request for a principal whose current reset token
\* was issued less than 5 minutes ago is a silent no-op: the stored token
\* digest, expiry and attempt counter are unchanged and the Notifier is not
\* called, so the one valid raw token is still the first.
C10_CooldownNoOp == [][C10_Request_a]_vars

\* A second request arrived within the cooldown: one email was sent, and its
\* token is the one that verifies
C10_Witness ==
    /\ pcall.op = "request"
    /\ pcall.why = "cooldown"
    /\ Cardinality(outbox) = 1
    /\ \E m \in outbox : /\ ValidFor(m.to) = {m.raw}
                         /\ IssuedWithinCooldown(m.to)

\* The raw tokens verify_reset_token accepts as principal u's
Verifiable(u) ==
    {raw \in RawTokens :
         LET res == verify_reset_token(raw, FALSE)
         IN  res.why = "ok" /\ res.uid = u}

\* The step is a reset request that issues a token to principal u
IssuesTo(u) ==
    /\ pcall'.op = "request"
    /\ pcall'.why = "sent"
    /\ RequestPasswordReset(u)

C11_AtMostOne_s == \A u \in Users : Cardinality(Verifiable(u)) <= 1

\* When a request issues a token to u, the tokens emailed to u before are
\* held by no one afterwards
C11_Issue_a ==
    \A u \in Users :
        IssuesTo(u) =>
            \A m \in outbox : m.to = u => Dead(m.raw)' /\ m.raw \notin Verifiable(u)'

\* A token no principal holds is not held again and fails every verification
C11_Dead_a ==
    \A raw \in RawTokens :
        Dead(raw) => Dead(raw)' /\ (Verifies(raw) => ~Returned')

\* C11: in every reachable state at most one raw reset token verifies for a
\* given principal; when a reset request issues a new token, the previously
\* issued raw token for that principal fails verification from then on.
C11_OneLiveResetToken ==
    []C11_AtMostOne_s /\ [][C11_Issue_a /\ C11_Dead_a]_vars

\* A second token was issued to a principal: it verifies, the first does not
C11_Witness ==
    /\ pcall.op = "request"
    /\ pcall.why = "sent"
    /\ \E m1, m2 \in outbox :
           /\ m1.to = m2.to
           /\ m1.raw < m2.raw
           /\ Verifiable(m1.to) = {m2.raw}
           /\ Dead(m1.raw)

\* No principal's password hash changes in the step
SameHashes == \A u \in Users : users'[u].password_hash = users[u].password_hash

\* A successful reset_password leaves its token held by no one
C12_Consume_a ==
    \A raw \in RawTokens : (Consumes(raw) /\ Returned') => Dead(raw)'

\* A token held by no one stays so, fails verify_reset_token and
\* reset_password, and changes no password hash
C12_Used_a ==
    \A raw \in RawTokens :
        Dead(raw) =>
            /\ Dead(raw)'
            /\ (Verifies(raw) \/ Consumes(raw)) => ~Returned' /\ SameHashes

\* C12: a reset token is single-use: after reset_password has succeeded with
\* raw token T, every later verify_reset_token or reset_password presenting T
\* fails and cannot change the principal's password hash.
C12_SingleUse == [][C12_Consume_a /\ C12_Used_a]_vars

\* The one token emailed was consumed (the password was changed with it) and
\* a later call found no holder for the token it presented
C12_Witness ==
    /\ pcall.op \in {"verify", "consume"}
    /\ pcall.why = "notfound"
    /\ \E m \in outbox :
           /\ outbox = {m}
           /\ Dead(m.raw)
           /\ users[m.to].password_changed_at # Null
           /\ users[m.to].password_hash # NewUser(1).password_hash

C13_Route_a ==
    \A u \in Users, raw \in RawTokens :
        ( /\ pcall'.op = "verify"
          /\ HoldsUnexpired(u, raw)
          /\ VerifyResetTokenRoute(raw) )
        => /\ users'[u].reset_attempts = users[u].reset_attempts
           /\ users'[u].reset_token = users[u].reset_token
           /\ users'[u].reset_token_expires = users[u].reset_token_expires
           /\ raw \in Verifiable(u)'

\* C13: the "is this token still valid" check exposed as POST
\* /auth/verify-reset-token is non-mutating: called with a valid unexpired
\* reset token it changes neither the attempt counter nor the stored token
\* digest and expiry, and the token stays usable for reset_password.
C13_RouteNonMutating == [][C13_Route_a]_vars

\* C14: request_password_reset returns the identical generic success
\* response for every email and every state: no matching principal, request
\* inside the cooldown, token issued and email dispatched, storage error and
\* Notifier failure are indistinguishable to the caller.
C14_GenericResponse == pcall.op = "request" => pcall.resp = success_message

\* The Notifier failed after the token was committed: the principal holds a
\* token that was never emailed, and the caller got the generic message
C14_Witness ==
    /\ pcall.op = "request"
    /\ pcall.why = "mailerror"
    /\ pcall.resp = success_message
    /\ \E u \in Users :
           /\ users[u].reset_token # NoToken
           /\ \A m \in outbox : users[u].reset_token # hash_token(m.raw)

-----------------------------------------------------------------------------
\* Claims on the answers of login

\* Request l is answered in this step, and not with success
LoginFails(l) ==
    /\ lreq'[l] # lreq[l]
    /\ lreq'[l].status \notin {0, 200}

\* Principal u is locked once the step is done
LockedAfter(u) ==
    /\ users'[u].failed_login_attempts >= 5
    /\ users'[u].last_failed_login_at # Null
    /\ now' - users'[u].last_failed_login_at < 30

C15_Answer_a ==
    \A l \in LoginReqs :
        LoginFails(l) =>
            LET e == lreq'[l].email
            IN  lreq'[l].status =
                    IF e \in Users /\ LockedAfter(e) THEN 403 ELSE 401

\* C15: a failed password login does not reveal whether the email belongs to
\* a principal: a login with an unknown email and a login with a known email
\* and a wrong password are both answered InvalidCredentials (401), the only
\* other failure being AccountLocked (403), given exactly when the account is
\* locked as the answer is sent.
C15_NoEnumeration == [][C15_Answer_a]_vars

\* A known email with a wrong password was answered 401, as an unknown one is
C15_Witness ==
    \E l \in LoginReqs :
        /\ lreq[l].email \in Users
        /\ lreq[l].path = "invalid"
        /\ ~RightPassword(lreq[l].email, lreq[l].password)
        /\ lreq[l].status = LoginFailureStatus(FALSE, lreq[l].sess)

-----------------------------------------------------------------------------
\* Issuance paths and what they store

\* A token column holding the raw value itself
PlainText(raw) == <<"plain", raw>>

\* create_refresh_token_entry of the legacy app/auth.py: the expired rows of
\* the user are deleted, then a row is added whose token is the raw token
LegacyCreateRefreshTokenEntry(u) ==
    /\ nextRaw <= MaxLegacyTokens
    /\ refresh_tokens' =
           {t \in refresh_tokens : ~(t.user_id = u /\ t.expires_at < now)}
           \cup {[NewRefreshRow(nextRaw, u, now) EXCEPT
                     !.token = PlainText(nextRaw)]}
    /\ nextId' = nextId + 1
    /\ nextRaw' = nextRaw + 1
    /\ UNCHANGED <<likes, redis, preq, ideas, loop, now, users, rreq, lreq, outbox, pcall, access, acall>>

NextIssuance ==
    \/ Tick(RefreshStep, MaxRefreshTicks * RefreshStep)
    \/ \E u \in Users : LoginIssue(u)
    \/ \E u \in Users : LegacyCreateRefreshTokenEntry(u)
    \/ \E e \in Users \cup {UnknownEmail} : RequestPasswordReset(e)

\* Every path that issues a refresh token or a reset token
SpecIssuance == Init /\ [][NextIssuance]_vars

\* The raw tokens generated so far
Generated == 1..(nextRaw - 1)

\* C16: secrets are stored only as digests: for every issuance path
\* (core/security.create_refresh_token_entry, the legacy
\* app/auth.create_refresh_token_entry and request_password_reset) the stored
\* token of a refresh-token record or a principal's reset_token equals
\* hash_token(raw) and never the raw value handed to the client.
C16_DigestsOnly ==
    /\ \A t \in refresh_tokens :
           /\ \E raw \in Generated : t.token = hash_token(raw)
           /\ \A raw \in Generated : t.token # PlainText(raw)
    /\ \A u \in Users :
           users[u].reset_token # NoToken =>
               /\ \E raw \in Generated : users[u].reset_token = hash_token(raw)
               /\ \A raw \in Generated : users[u].reset_token # PlainText(raw)

-----------------------------------------------------------------------------
\* Claims on logout

\* Request r is a logout answered in this step
LogsOut(r) == rreq[r].pc = "start" /\ rreq'[r].pc = "logout"

C17_Logout_a ==
    \A r \in RefreshReqs :
        LogsOut(r) =>
            LET raw == rreq'[r].raw
                rows == UnrevokedRows(raw)
            IN  /\ rreq'[r].status = 200
                /\ rreq'[r].cleared = BothCookies
                /\ IF raw # NoCookie /\ rows # {}
                   THEN refresh_tokens' =
                            {IF t \in rows THEN [t EXCEPT !.revoked = TRUE]
                             ELSE t : t \in refresh_tokens}
                   ELSE refresh_tokens' = refresh_tokens

\* C17: logout presenting a valid refresh token T marks T's record revoked
\* (so that no later refresh finds an unrevoked record for T); with a
\* missing, unknown or already-revoked token it still succeeds, clears both
\* cookies and changes no stored record.
C17_LogoutRevokes == [][C17_Logout_a]_vars

\* ---------------------------------------------------------------------------
\* Expiry of refresh-token records, core and legacy verification

\* select of the legacy app/auth.py: filter(RefreshToken.token == refresh_token)
LegacyRows(raw) == {t \in refresh_tokens : t.token = PlainText(raw)}

\* verify_refresh_token of the legacy app/auth.py: the row is looked up by the
\* raw token; an expired row is deleted and the request refused
LegacyVerifyRefreshToken(r, raw) ==
    /\ rreq[r].pc = "start" /\ ~Finished(rreq[r])
    /\ \A q \in 1..(r - 1) : rreq[q].pc # "start" \/ Finished(rreq[q])
    /\ LET rows == LegacyRows(raw)
           fail == [rreq EXCEPT ![r] = [@ EXCEPT !.raw = raw, !.status = 401,
                                                 !.cleared = BothCookies]]
       IN  IF rows = {}
           THEN /\ rreq' = fail
                /\ UNCHANGED refresh_tokens
           ELSE LET t == CHOOSE x \in rows : TRUE
                IN  IF RefreshExpired(t, now)
                    THEN /\ refresh_tokens' = refresh_tokens \ {t}
                         /\ rreq' = fail
                    ELSE /\ rreq' = [rreq EXCEPT ![r] =
                                [@ EXCEPT !.pc = "legacy_verified", !.raw = raw,
                                          !.uid = t.user_id, !.tid = t.id]]
                         /\ UNCHANGED refresh_tokens
    /\ UNCHANGED <<likes, redis, preq, ideas, loop, now, nextId, nextRaw, users, lreq,
                 outbox, pcall, access, acall>>

NextExpiry ==
    \/ Tick(RefreshStep, MaxRefreshTicks * RefreshStep)
    \/ \E u \in Users : LoginIssue(u)
    \/ \E u \in Users : LegacyCreateRefreshTokenEntry(u)
    \/ \E r \in RefreshReqs, raw \in {BogusRaw} \cup 1..(nextRaw - 1) :
           RefreshVerify(r, raw)
    \/ \E r \in RefreshReqs, raw \in {BogusRaw} \cup 1..(nextRaw - 1) :
           LegacyVerifyRefreshToken(r, raw)

\* Both verify_refresh_token functions over one store of records
SpecExpiry == Init /\ [][NextExpiry]_vars

\* The record t is past its expiry now
PastExpiry(t) == now > t.expires_at

\* The step purges record t and refuses request r
PurgedAndRefused(r, t) ==
    /\ rreq'[r].status = 401
    /\ rreq'[r].pc = "start"
    /\ t \notin refresh_tokens'
    /\ \A x \in refresh_tokens' : x.id # t.id

C18_Purge_a ==
    \A r \in RefreshReqs : \A raw \in Generated :
        /\ (Begins(r, raw) /\ RefreshVerify(r, raw)) =>
               \A t \in UnrevokedRows(raw) :
                   PastExpiry(t) => PurgedAndRefused(r, t)
        /\ (Begins(r, raw) /\ LegacyVerifyRefreshToken(r, raw)) =>
               \A t \in LegacyRows(raw) :
                   PastExpiry(t) => PurgedAndRefused(r, t)

C18_NeverAccepted_a ==
    \A r \in RefreshReqs :
        (/\ rreq[r].pc = "start"
         /\ rreq'[r].pc \in {"verified", "legacy_verified"}) =>
            \A t \in refresh_tokens :
                t.id = rreq'[r].tid => ~PastExpiry(t)

RefreshFailed(r) == rreq[r].pc # "logout" /\ rreq[r].status = 401

\* C19: every refused refresh, whichever way it failed (no cookie, token not
\* found, revoked, expired, principal missing), answers with both the
\* access_token and the refresh_token cookies deleted.
C19_FailedRefreshClearsCookies ==
    \A r \in RefreshReqs : RefreshFailed(r) => rreq[r].cleared = BothCookies

\* ---------------------------------------------------------------------------
\* The claims of the access tokens each route issues

\* Access tokens issued in one run
MaxIssuedAccess == 2

\* str(user.id)
str(id) == <<"str", id>>

\* data of local_auth.login: {"sub": str(user.id)}
LoginData(u) == [sub |-> str(u)]

\* data of auth_google.auth_callback and auth_google.refresh_access_token:
\* {"sub": str(user.id), "role": user.role.value}
GoogleData(u) == [sub |-> str(u), role |-> users[u].role]

\* A route issues an access token for principal u from `data`
IssueAccess(path, u, data) ==
    /\ Cardinality(access) < MaxIssuedAccess
    /\ access' = access \cup
           {[tok |-> create_access_token(data, None, now,
                                         Cardinality(access) + 1),
             ttl |-> None, path |-> path, uid |-> u,
             role |-> users[u].role]}
    /\ UNCHANGED <<likes, redis, preq, ideas, loop, now, users, refresh_tokens, nextId, nextRaw, rreq, lreq,
                   outbox, pcall, acall>>

\* local_auth.login, after authenticate_user succeeded
LoginAccessToken(u) == IssueAccess("login", u, LoginData(u))

\* auth_google.auth_callback, after the ID token was verified
CallbackAccessToken(u) == IssueAccess("callback", u, GoogleData(u))

\* auth_google.refresh_access_token, after the presented token was revoked
RefreshAccessToken(u) == IssueAccess("refresh", u, GoogleData(u))

\* The role column of principal u is set to admin
update_user_role_to_admin(u) ==
    /\ users[u].role = "user"
    /\ users' = [users EXCEPT ![u] = [@ EXCEPT !.role = "admin"]]
    /\ UNCHANGED <<likes, redis, preq, ideas, loop, now, refresh_tokens, nextId, nextRaw, rreq, lreq,
                   outbox, pcall, access, acall>>

NextTokenClaims ==
    \/ Tick(1, MaxAccessSlack)
    \/ \E u \in Users : update_user_role_to_admin(u)
    \/ \E u \in Users : LoginAccessToken(u)
    \/ \E u \in Users : CallbackAccessToken(u)
    \/ \E u \in Users : RefreshAccessToken(u)

\* The three routes that issue access tokens, with role changes in between
SpecTokenClaims == Init /\ [][NextTokenClaims]_vars

RequiredClaims == {"sub", "role", "iat", "exp", "jti"}

\* C20: every access token issued by password login, by the OAuth callback or
\* by refresh carries sub (the stringified principal id), role (the
\* principal's role when the token was issued), iat, exp and jti.
C20_AccessTokenClaims ==
    \A a \in access :
        /\ RequiredClaims \subseteq DOMAIN a.tok
        /\ a.tok.sub = str(a.uid)
        /\ a.tok.role = a.role

\* ---------------------------------------------------------------------------
\* Access tokens across logout, rotation and revocation

\* local_auth.login after authenticate_user succeeded: the refresh-token row is
\* added and the access token of the same session is issued.  Principals
\* first log in in order (they are interchangeable).
LoginSession(u) ==
    /\ nextRaw <= MaxLogins
    /\ \A v \in 1..(u - 1) : \E a \in access : a.uid = v
    /\ refresh_tokens' = refresh_tokens \cup {NewRefreshRow(nextRaw, u, now)}
    /\ nextId' = nextId + 1
    /\ nextRaw' = nextRaw + 1
    /\ access' = access \cup
           {[tok |-> create_access_token(LoginData(u), None, now, nextRaw),
             ttl |-> None, path |-> "login", uid |-> u,
             role |-> users[u].role]}
    /\ UNCHANGED <<likes, redis, preq, ideas, loop, now, users, rreq, lreq, outbox, pcall, acall>>

\* The ids of the refresh-token rows with the given revoked flag
RowIds(flag) == {t.id : t \in {x \in refresh_tokens : x.revoked = flag}}

\* verify_token is called with an issued token; acall also keeps the store the
\* call was made in
VerifyInSession(a) ==
    /\ a \in access
    /\ acall' = [n |-> 1, jti |-> a.tok.jti, at |-> now,
                 ok |-> verify_token(a.tok, now),
                 live |-> RowIds(FALSE), revoked |-> RowIds(TRUE)]
    /\ UNCHANGED <<likes, redis, preq, ideas, loop, now, users, refresh_tokens, nextId, nextRaw, rreq, lreq,
                   outbox, pcall, access>>

\* Refresh and logout requests served while access tokens are verified
MaxSessionReqs == 2

SessionReqs == 1..MaxSessionReqs

NextStateless ==
    \/ Tick(ACCESS_TOKEN_EXPIRE_MINUTES,
            (MaxAccessSlack + 1) * ACCESS_TOKEN_EXPIRE_MINUTES)
    \/ \E u \in Users : LoginSession(u)
    \/ \E r \in SessionReqs, raw \in 1..(nextRaw - 1) : RefreshVerify(r, raw)
    \/ \E r \in SessionReqs : RefreshRevoke(r)
    \/ \E r \in SessionReqs : RefreshIssue(r)
    \/ \E r \in SessionReqs, raw \in 1..(nextRaw - 1) : Logout(r, raw)
    \/ \E a \in access : VerifyInSession(a)

\* Sessions opened by login, rotated, logged out, and their access tokens
\* verified in between
SpecStateless == Init /\ [][NextStateless]_vars

\* C21: the outcome of verify_token depends on the token and the time only: in
\* whatever state the store was when the call was made (rows revoked, rotated,
\* a logout served), a token issued by login verifies iff its exp is not
\* before the time of the call.
C21_VerifyStateless ==
    \A a \in access :
        acall.jti = a.tok.jti =>
            acall.ok = ~(a.tok.exp < acall.at)

\* An access token verified although every refresh-token row of the store,
\* the one of its own session included, was revoked when the call was made
C21_Witness ==
    /\ acall.jti # 0 /\ acall.ok
    /\ acall.live = {} /\ acall.revoked # {}

\* ---------------------------------------------------------------------------
\* Claims on the expiry create_access_token computes

\* C22: for every time-to-live passed to create_access_token, zero included,
\* the issued token has exp = iat + ttl; the default lifetime
\* ACCESS_TOKEN_EXPIRE_MINUTES is used only when no time-to-live is passed.
C22_ExpIsIatPlusTtl ==
    \A a \in access :
        a.tok.exp = a.tok.iat + (IF a.ttl = None
                                 THEN ACCESS_TOKEN_EXPIRE_MINUTES
                                 ELSE a.ttl[1])

\* ---------------------------------------------------------------------------
\* validate_password_strength on concrete passwords

\* Length of the free part of a candidate password
MaxPrefix == 2

\* One character of each class, and one of none
Alphabet == {"a", "A", "1", "!", "~"}

\* The sequences over Alphabet of length at most n
RECURSIVE SeqsUpTo(_)
SeqsUpTo(n) ==
    IF n = 0 THEN {<< >>}
    ELSE LET shorter == SeqsUpTo(n - 1)
         IN  shorter \cup {Append(q, c) : q \in shorter, c \in Alphabet}

\* Padding lengths that bring a candidate to either side of both length limits
PadLengths ==
    {0} \cup ((MIN_PASSWORD_LENGTH - MaxPrefix)..MIN_PASSWORD_LENGTH)
        \cup ((MAX_PASSWORD_LENGTH - MaxPrefix)..(MAX_PASSWORD_LENGTH + 1))

\* Passwords named by the deny-list and the examples, in several casings
NamedPasswords ==
    common_passwords \cup
    {<<"P", "A", "S", "S", "W", "O", "R", "D">>,
     <<"P", "a", "s", "s", "w", "o", "r", "d">>,
     <<"P", "a", "s", "s", "w", "o", "r", "d", "1", "2", "3">>,
     <<"P", "a", "s", "s", "w", "o", "r", "d", "1", "2", "3", "!">>,
     <<"S", "t", "r", "0", "n", "g", "!", "P", "a", "s", "s">>}

CandidatePasswords ==
    NamedPasswords \cup
    {q \o Repeat(c, n) : q \in SeqsUpTo(MaxPrefix), c \in Alphabet,
                         n \in PadLengths}

\* validate_password_strength is called with `password` (a pure function: one
\* call per behaviour shows all it does)
ValidatePasswordStrength(password) ==
    /\ pcall = NoCall
    /\ pcall' = [op |-> "validate", n |-> 0, why |-> "none",
                 resp |-> validate_password_strength(password),
                 password |-> password]
    /\ UNCHANGED <<likes, redis, preq, ideas, loop, now, users, refresh_tokens, nextId, nextRaw, rreq, lreq,
                   outbox, access, acall>>

NextStrength == \E password \in CandidatePasswords :
                    ValidatePasswordStrength(password)

SpecStrength == Init /\ [][NextStrength]_vars

\* The number of characters of `password` that are in `class`
CountIn(password, class) ==
    Cardinality({i \in 1..Len(password) : password[i] \in class})

\* The rules, in the order the messages are listed
Rules ==
    <<"Password must be at least 8 characters long",
      "Password must not exceed 128 characters",
      "Password must contain at least one uppercase letter",
      "Password must contain at least one lowercase letter",
      "Password must contain at least one number",
      "Password must contain at least one special character",
      "Password is too common">>

\* Rule k is violated by `password`
Violates(password, k) ==
    CASE k = 1 -> Len(password) <= 7
      [] k = 2 -> Len(password) >= 129
      [] k = 3 -> CountIn(password, UpperChars) = 0
      [] k = 4 -> CountIn(password, LowerChars) = 0
      [] k = 5 -> CountIn(password, DigitChars) = 0
      [] k = 6 -> CountIn(password, special_chars) = 0
      [] k = 7 -> \E w \in common_passwords :
                      /\ Len(w) = Len(password)
                      /\ \A i \in 1..Len(w) :
                             w[i] = password[i] \/ w[i] = lower(password[i])

ViolatedRules(password) == {k \in 1..7 : Violates(password, k)}

\* The answer lists message k iff rule k is violated, each once, in rule order
ListsExactly(resp, password) ==
    /\ Len(resp) = Cardinality(ViolatedRules(password))
    /\ \A k \in 1..7 :
           Violates(password, k) <=> \E i \in 1..Len(resp) : resp[i] = Rules[k]
    /\ \A i, j \in 1..Len(resp) :
           i < j => \E k, m \in 1..7 :
                        k < m /\ resp[i] = Rules[k] /\ resp[j] = Rules[m]

\* C23: validate_password_strength returns exactly the list of all violated
\* rules (too short, too long, no uppercase, no lowercase, no digit, no symbol
\* of special_chars, on the deny-list whatever the casing), not only the
\* first, and the empty list iff no rule is violated; "password" yields at
\* least 4 violations and "Str0ng!Pass" yields none.
C23_AllViolationsListed ==
    pcall.op = "validate" =>
        /\ ListsExactly(pcall.resp, pcall.password)
        /\ pcall.resp = << >> <=> ViolatedRules(pcall.password) = {}
        /\ pcall.password = <<"p", "a", "s", "s", "w", "o", "r", "d">> =>
               Len(pcall.resp) >= 4
        /\ pcall.password =
               <<"S", "t", "r", "0", "n", "g", "!", "P", "a", "s", "s">> =>
               pcall.resp = << >>

\* "password" was validated and several violations were reported
C23_Witness ==
    /\ pcall.op = "validate"
    /\ pcall.password = <<"p", "a", "s", "s", "w", "o", "r", "d">>
    /\ Len(pcall.resp) >= 4

\* ---------------------------------------------------------------------------
\* Claims on reset_password refusing the new password

\* The new password is refused for principal u: it differs from its
\* confirmation, fails strength validation, or is u's current password
Unacceptable(u, new_password, confirm_password) ==
    \/ new_password # confirm_password
    \/ PasswordViolations[new_password] # << >>
    \/ verify_hashed_password(new_password, users[u].password_hash)

\* reset_password with `raw` and an acceptable password would succeed now
StillConsumable(u, raw) ==
    /\ HoldsUnexpired(u, raw)
    /\ verify_reset_token(raw, ResetIncrementsAttempts).why = "ok"
    /\ \E p \in Passwords : ~Unacceptable(u, p, p)

\* The arguments reset_password is tried with: any token with any password,
\* strong or weak, confirmed correctly, and any token with a pair of passwords
\* that do not match
RefusalInputs ==
    {[raw |-> raw, new |-> p, confirm |-> p] :
         raw \in RawTokens, p \in Passwords \cup {WeakPassword}}
    \cup {[raw |-> raw, new |-> 1, confirm |-> WeakPassword] :
              raw \in RawTokens}

NextResetRefusal ==
    \/ Tick(ResetExpiry, ResetExpiry + MaxResetTicks * ResetStep)
    \/ \E e \in Users : RequestPasswordReset(e)
    \/ \E raw \in RawTokens : VerifyResetTokenRoute(raw)
    \/ \E i \in RefusalInputs : ResetPassword(i.raw, i.new, i.confirm)

\* Reset tokens requested, checked through the route, and consumed with
\* passwords of every kind
SpecResetRefusal == Init /\ [][NextResetRefusal]_vars

\* The branches on which reset_password refuses the new password
Refusals == {"mismatch", "weak", "same"}

C24_Refused_a ==
    pcall'.op = "consume" =>
        /\ pcall'.why \in Refusals => pcall'.resp = "400" /\ users' = users
        /\ \A u \in Users : \A i \in RefusalInputs :
               ( /\ HoldsUnexpired(u, i.raw)
                 /\ Unacceptable(u, i.new, i.confirm) ) =>
                   IF pcall'.why \in Refusals
                   THEN StillConsumable(u, i.raw)'
                   ELSE ~ResetPassword(i.raw, i.new, i.confirm)

\* C24: reset_password with a valid unexpired token and a new password that
\* fails strength validation, differs from its confirmation or equals the
\* current password fails and leaves the principal's password hash, reset
\* token digest, expiry and attempt counter unchanged, so that the same token
\* can still be consumed with an acceptable password.
C24_RefusedPasswordKeepsToken == [][C24_Refused_a]_vars

\* reset_password refused the current password as the new one (so the token
\* it was given verified), and the principal still holds an unexpired token
\* and the password set at signup
C24_Witness ==
    /\ pcall.op = "consume" /\ pcall.why = "same"
    /\ \E m \in outbox :
           /\ StillConsumable(m.to, m.raw)
           /\ users[m.to].password_hash = NewUser(1).password_hash
           /\ users[m.to].reset_attempts > 0

\* ---------------------------------------------------------------------------
\* revoke_refresh_token called on its own

\* (mutant) a revocation that flips the flag of the record
toggle_revoked(db, refresh_token_id) ==
    {IF t.id = refresh_token_id THEN [t EXCEPT !.revoked = ~t.revoked] ELSE t :
         t \in db}

\* revoke_refresh_token(db, refresh_token_id) in a session that has not loaded
\* the record: db.get reads it, and the flag is set and committed only when
\* the record exists and is not revoked; the store afterwards
revoke_refresh_token(db, refresh_token_id) ==
    {IF t.id = refresh_token_id /\ ~t.revoked THEN [t EXCEPT !.revoked = TRUE]
     ELSE t : t \in db}

\* The ids records have had so far, and one no record has had
RecordIds == 1..nextId

\* revoke_refresh_token is called with id; pcall keeps the call and what it met
RevokeCall(id) ==
    /\ refresh_tokens' = revoke_refresh_token(refresh_tokens, id)
    /\ pcall' = [op |-> "revoke", n |-> id,
                 why |-> IF RowById(id) = {} THEN "missing"
                         ELSE IF \A t \in RowById(id) : t.revoked
                         THEN "already" ELSE "live",
                 resp |-> "None"]
    /\ UNCHANGED <<likes, redis, preq, ideas, loop, now, users, nextId, nextRaw, rreq, lreq, outbox, access,
                   acall>>

\* Principals first log in in order (they are interchangeable)
NextRevoke ==
    \/ Tick(RefreshStep, RefreshStep)
    \/ \E u \in Users : u <= nextRaw /\ LoginIssue(u)
    \/ \E r \in SessionReqs, raw \in 1..(nextRaw - 1) : RefreshVerify(r, raw)
    \/ \E r \in SessionReqs : RefreshRevoke(r)
    \/ \E r \in SessionReqs : RefreshIssue(r)
    \/ \E id \in RecordIds : RevokeCall(id)

\* Every operation on refresh-token records, and revocations by id in between
SpecRevoke == Init /\ [][NextRevoke]_vars

\* A second revocation of any id changes nothing, and neither does the
\* revocation of an id of no record
C25_Idempotent_s ==
    \A id \in RecordIds :
        LET once == revoke_refresh_token(refresh_tokens, id)
        IN  /\ revoke_refresh_token(once, id) = once
            /\ \A t \in once : t.id = id => t.revoked
            /\ RowById(id) = {} => once = refresh_tokens

\* A revocation leaves the record revoked, and changes the store only when
\* the record was live
C25_Call_a ==
    (pcall'.op = "revoke" /\ pcall' # pcall) =>
        /\ \A t \in refresh_tokens' : t.id = pcall'.n => t.revoked
        /\ pcall'.why \in {"missing", "already"} =>
               refresh_tokens' = refresh_tokens

\* No step sets the revoked flag of an existing record back to false
C25_NeverUnrevoked_a ==
    \A t \in refresh_tokens : \A x \in refresh_tokens' :
        (t.revoked /\ x.id = t.id) => x.revoked

\* C25: revoke_refresh_token is idempotent: after one call the record is
\* revoked, a second call leaves the store unchanged, a call with the id of no
\* record changes nothing; and no operation sets an existing record's revoked
\* flag back to false.
C25_RevokeIdempotent ==
    []C25_Idempotent_s /\ [][C25_Call_a /\ C25_NeverUnrevoked_a]_vars

\* revoke_refresh_token was called on a record already revoked, which is
\* still revoked
C25_Witness ==
    /\ pcall.op = "revoke" /\ pcall.why = "already"
    /\ \E t \in refresh_tokens : t.id = pcall.n /\ t.revoked

\* ---------------------------------------------------------------------------
\* Claims on what verify_refresh_token writes

C26_Verify_a ==
    \A r \in RefreshReqs : \A raw \in {BogusRaw} \cup Generated :
        Begins(r, raw) =>
            LET rows == UnrevokedRows(raw)
            IN  /\ rows = {} =>
                       /\ rreq'[r].status = 401
                       /\ refresh_tokens' = refresh_tokens
                /\ (\E t \in rows : ~PastExpiry(t)) =>
                       /\ rreq'[r].pc = "verified"
                       /\ refresh_tokens' = refresh_tokens
                /\ refresh_tokens' # refresh_tokens =>
                       /\ \A t \in rows : PastExpiry(t)
                       /\ refresh_tokens' = refresh_tokens \ rows

\* C26: verify_refresh_token writes nothing when it succeeds and nothing when
\* it fails because the token has no record or a revoked one: the records and
\* their revoked flags are the same before and after; only the call that
\* finds an expired record changes the store, by deleting that record.
C26_VerifyWritesNothing == [][C26_Verify_a]_vars

\* One request passed verification, another was refused with a token whose
\* record is in the store, revoked
C26_Witness ==
    \E r, q \in RefreshReqs :
        /\ rreq[r].pc = "verified"
        /\ rreq[q].status = 401 /\ rreq[q].raw \in Generated
        /\ \E t \in RowsWhateverFlag(rreq[q].raw) : t.revoked

\* ---------------------------------------------------------------------------
\* Password hashing and the event loop (app/core/util.py)

\* The hash calls each handler makes, in order
HashCalls(op) ==
    CASE op = "signup" -> <<"hashed_password">>
      [] op = "login" -> <<"async_verify_hashed_password">>
      [] op = "reset_password" ->
             <<"async_verify_hashed_password", "async_hashed_password">>
      [] op = "change_password" ->
             <<"async_verify_hashed_password", "async_verify_hashed_password",
               "async_hashed_password">>

HashOps == {"signup", "login", "reset_password", "change_password"}

\* The thread a hash function computes on: the async_ wrappers hand the work
\* to asyncio.to_thread, the plain functions compute in the caller's thread,
\* which for a coroutine is the event loop's
Dispatch(fn) ==
    IF fn \in {"async_hashed_password", "async_verify_hashed_password"}
    THEN "worker" ELSE "loop"

\* The event loop's thread is not inside a hash computation
LoopFree == \A h \in HashReqs : ~(loop[h].pc = "hashing" /\ loop[h].on = "loop")

\* A request for handler op arrives; the loop runs it up to its first hash call
Arrive(h, op) ==
    /\ LoopFree
    /\ loop[h].pc = "start"
    /\ \A q \in 1..(h - 1) : loop[q].pc # "start"
    /\ loop' = [loop EXCEPT ![h] = [@ EXCEPT !.op = op, !.pc = "ready"]]
    /\ UNCHANGED <<likes, redis, preq, ideas, now, users, refresh_tokens, nextId, nextRaw, rreq, lreq,
                   outbox, pcall, access, acall>>

\* The loop runs request h into its next hash call
HashCall(h) ==
    /\ LoopFree
    /\ loop[h].pc = "ready"
    /\ loop' = [loop EXCEPT ![h] =
                    [@ EXCEPT !.pc = "hashing",
                              !.on = Dispatch(HashCalls(loop[h].op)
                                                  [loop[h].k + 1])]]
    /\ UNCHANGED <<likes, redis, preq, ideas, now, users, refresh_tokens, nextId, nextRaw, rreq, lreq,
                   outbox, pcall, access, acall>>

\* The hash computation of request h ends; a computation on a worker thread
\* hands its result back to the loop
HashReturn(h) ==
    /\ loop[h].pc = "hashing"
    /\ loop[h].on = "loop" \/ LoopFree
    /\ loop' = [loop EXCEPT ![h] =
                    [@ EXCEPT !.k = @ + 1, !.on = "none",
                              !.pc = IF loop[h].k + 1 = Len(HashCalls(loop[h].op))
                                     THEN "done" ELSE "ready"]]
    /\ UNCHANGED <<likes, redis, preq, ideas, now, users, refresh_tokens, nextId, nextRaw, rreq, lreq,
                   outbox, pcall, access, acall>>

NextHashing ==
    \/ \E h \in HashReqs, op \in HashOps : Arrive(h, op)
    \/ \E h \in HashReqs : HashCall(h)
    \/ \E h \in HashReqs : HashReturn(h)

\* Requests served by one event loop, their hash calls included
SpecHashing == Init /\ [][NextHashing]_vars

\* Request h has a step the loop could run
Runnable(h) == loop[h].pc \in {"start", "ready"}

\* C27: every password hash computation and verification of signup, login,
\* reset_password and change_password runs off the event loop's thread:
\* while the hash of one request is being computed, the loop is free to take
\* the steps of the other requests.
C27_HashingOffLoop ==
    \A h \in HashReqs :
        loop[h].pc = "hashing" =>
            /\ loop[h].on = "worker"
            /\ \A o \in HashReqs \ {h} : Runnable(o) => LoopFree

\* ---------------------------------------------------------------------------
\* Endpoints guarded by require_role (app/core/role_based_auth.py)

\* get_current_user of app/core/depedencies.py, the one require_role depends
\* on: the token is verified, then the principal is looked up with
\* db.query(User), which the AsyncSession get_db yields does not have.
\* The answer is an HTTP status, or the principal found.
get_current_user(token, at) ==
    IF ~verify_token(token, at) THEN [status |-> 401, user |-> 0]
    ELSE IF ~SessionHasQuery THEN [status |-> 500, user |-> 0]
    ELSE [status |-> 200, user |-> token.sub[2]]

\* require_role(required_role) applied to the principal get_current_user found
require_role(required_role, current) ==
    IF current.status # 200 THEN current.status
    ELSE IF users[current.user].role # required_role THEN 403
    ELSE 200

\* A request to an endpoint guarded by require_role("admin") carrying access
\* token a; acall keeps the answer and the principal's role at that moment
AdminRequest(a) ==
    /\ a \in access
    /\ acall' = [n |-> 1, jti |-> a.tok.jti, at |-> now,
                 ok |-> verify_token(a.tok, now),
                 status |-> require_role("admin", get_current_user(a.tok, now)),
                 role |-> users[a.uid].role]
    /\ UNCHANGED <<likes, redis, preq, ideas, loop, now, users, refresh_tokens, nextId, nextRaw, rreq,
                   lreq, outbox, pcall, access>>

NextAdmin ==
    \/ Tick(1, MaxAccessSlack)
    \/ Tick(ACCESS_TOKEN_EXPIRE_MINUTES,
            ACCESS_TOKEN_EXPIRE_MINUTES + MaxAccessSlack)
    \/ \E u \in Users : update_user_role_to_admin(u)
    \/ \E u \in Users : LoginAccessToken(u)
    \/ \E a \in access : AdminRequest(a)

\* Logins, role changes and requests to an admin-only endpoint
SpecAdmin == Init /\ [][NextAdmin]_vars

\* C28: an endpoint guarded by require_role("admin") answers 403 to an
\* authenticated principal whose role is user and admits one whose role is
\* admin; in particular a request with a token issued by a login made after
\* the role was changed to admin is admitted.
C28_AdminGuard ==
    (acall.jti # 0 /\ acall.ok) =>
        /\ acall.role = "user" => acall.status = 403
        /\ acall.role = "admin" => acall.status = 200

\* ---------------------------------------------------------------------------
\* Updating and deleting ideas (app/routers/ideas.py)

\* The id of a principal who wrote ideas and makes no request here
OtherAuthor == 0

\* An idea is created by its author (ideas are created in order)
CreateIdea(i, author) ==
    /\ ideas[i] = NoIdea
    /\ \A j \in 1..(i - 1) : ideas[j] # NoIdea
    /\ ideas' = [ideas EXCEPT ![i] = [author_id |-> author, version |-> 1,
                                      is_deleted |-> FALSE]]
    /\ UNCHANGED <<likes, redis, preq, now, users, refresh_tokens, nextId, nextRaw, rreq, lreq,
                   outbox, pcall, access, acall, loop>>

\* get_idea_permissions(idea, current_user)
get_idea_permissions(idea, u) ==
    LET is_owner == idea.author_id = u
        is_admin == users[u].role = "admin"
    IN  [can_edit |-> is_owner \/ is_admin, can_delete |-> is_owner \/ is_admin]

\* require_admin(current_user) called directly: the status it raises, or 200
\* when it returns the principal
require_admin(u) == IF users[u].role # "admin" THEN 403 ELSE 200

\* `await x` of a value that is not awaitable raises TypeError
AwaitPlainValue == 500

\* get_idea_for_update for verified requester u: the status it raises, or 200
\* when it returns the idea.  For a requester who is not the author it
\* evaluates `await require_admin(current_user)`, and require_admin is a plain
\* function that returns the principal.
get_idea_for_update(i, u) ==
    IF ideas[i] = NoIdea THEN 404
    ELSE IF ideas[i].author_id # u
    THEN IF require_admin(u) # 200 THEN require_admin(u) ELSE AwaitPlainValue
    ELSE 200

\* What acall keeps of a request on idea i by u: the answer, and the
\* permissions as get_idea_permissions computes them before the request
IdeaAnswer(op, i, u, status) ==
    [n |-> 1, jti |-> 0, at |-> now, ok |-> FALSE, op |-> op, status |-> status,
     idea |-> i, before |-> ideas[i],
     permissions |-> get_idea_permissions(ideas[i], u)]

\* PUT /ideas/{idea_id} by verified requester u
UpdateIdea(i, u) ==
    LET found == get_idea_for_update(i, u)
    IN  /\ found = 200 => ideas[i].version < MaxVersions
        /\ IF found = 200
           THEN /\ ideas' = [ideas EXCEPT ![i] = [@ EXCEPT !.version = @ + 1]]
                /\ acall' = IdeaAnswer("update", i, u, 200)
           ELSE /\ ideas' = ideas
                /\ acall' = IdeaAnswer("update", i, u, found)
        /\ UNCHANGED <<likes, redis, preq, now, users, refresh_tokens, nextId, nextRaw, rreq, lreq,
                       outbox, pcall, access, loop>>

\* DELETE /ideas/{idea_id} by verified requester u
DeleteIdea(i, u) ==
    LET found == get_idea_for_update(i, u)
    IN  /\ IF found = 200
           THEN /\ ideas' = [ideas EXCEPT ![i] = [@ EXCEPT !.is_deleted = TRUE]]
                /\ acall' = IdeaAnswer("delete", i, u, 204)
           ELSE /\ ideas' = ideas
                /\ acall' = IdeaAnswer("delete", i, u, found)
        /\ UNCHANGED <<likes, redis, preq, now, users, refresh_tokens, nextId, nextRaw, rreq, lreq,
                       outbox, pcall, access, loop>>

NextIdeas ==
    \/ \E i \in Ideas, author \in Users \cup {OtherAuthor} : CreateIdea(i, author)
    \/ \E u \in Users : update_user_role_to_admin(u)
    \/ \E i \in Ideas, u \in Users : UpdateIdea(i, u)
    \/ \E i \in Ideas, u \in Users : DeleteIdea(i, u)

\* Ideas created, then updated and deleted by verified requesters whose role
\* may change
SpecIdeas == Init /\ [][NextIdeas]_vars

\* C29: an update or a soft delete of an existing idea is carried out iff the
\* verified requester is the idea's author or has role admin, as the can_edit
\* and can_delete flags of get_idea_permissions say; any other verified
\* requester is answered 403 and the idea stays as it was.
C29_UpdateIffPermitted ==
    (acall.n = 1 /\ acall.status # 404) =>
        LET permitted == IF acall.op = "update"
                         THEN acall.permissions.can_edit
                         ELSE acall.permissions.can_delete
        IN  /\ permitted <=> acall.status \in {200, 204}
            /\ ~permitted =>
                   /\ acall.status = 403
                   /\ ideas[acall.idea] = acall.before

\* ---------------------------------------------------------------------------
\* Concurrent password logins of one principal.  Every request runs
\* authenticate_user in a session of its own: it selects the row, awaits the
\* password verification, and then adds one to the count its session read and
\* commits.

\* authenticate_user up to the password verification, in a request that does
\* not wait for the others: the row is selected as it is stored at that moment
ConcurrentLoginLoad(l, email, password) ==
    /\ lreq[l].pc = "start"
    /\ \A o \in 1..(l - 1) : lreq[o].pc # "start"
    /\ nextRaw <= MaxLoginTokens
    /\ LET q == [IdleLogin EXCEPT !.email = email, !.password = password]
           row == users[email]
       IN  IF StillLocked(row, now)
           THEN lreq' = [lreq EXCEPT ![l] =
                    [q EXCEPT !.loaded = row, !.sess = row,
                              !.path = "locked",
                              !.status = LoginFailureStatus(TRUE, row)]]
           ELSE lreq' = [lreq EXCEPT ![l] =
                    [q EXCEPT !.pc = "loaded", !.loaded = row,
                              !.sess = ResetIfNoTimestamp(row)]]
    /\ UNCHANGED <<likes, redis, preq, ideas, loop, now, users, refresh_tokens, nextId, nextRaw, rreq,
                 outbox, pcall, access, acall>>

NextConcurrentLogin ==
    \/ Tick(LoginStep, MaxLoginTicks * LoginStep)
    \/ \E l \in ConcurrentLogins, e \in Users, p \in Passwords :
           ConcurrentLoginLoad(l, e, p)
    \/ \E l \in ConcurrentLogins : LoginCommit(l)
    \/ \E l \in ConcurrentLogins : LoginIssueTokens(l)

\* Password logins whose requests overlap
SpecConcurrentLogin == Init /\ [][NextConcurrentLogin]_vars

\* the login requests for principal u that returned through path
LoginsBy(u, path) ==
    {l \in ConcurrentLogins : lreq[l].email = u /\ lreq[l].path = path}

\* C30: under any interleaving of concurrent failed login attempts for one
\* principal, no update is lost: as long as no attempt succeeded and none was
\* turned away by the lockout, failed_login_attempts equals the number of
\* failed attempts that were processed
C30_NoLostUpdate ==
    \A u \in Users :
        (LoginsBy(u, "valid") = {} /\ LoginsBy(u, "locked") = {}) =>
            users[u].failed_login_attempts = Cardinality(LoginsBy(u, "invalid"))

\* ---------------------------------------------------------------------------
\* C32: login answers AccountLocked (403) only for an attempt that
\* authenticate_user refused because the account was locked when the attempt
\* was evaluated, and a failed attempt evaluated while the account was not
\* locked is answered InvalidCredentials (401)
C32_LockedAnswerOnlyWhenLocked ==
    \A l \in LoginReqs :
        /\ lreq[l].status = 403 => lreq[l].path = "locked"
        /\ lreq[l].path = "invalid" => lreq[l].status = 401

\* ---------------------------------------------------------------------------
C35_Miss_a ==
    \/ users' = users /\ outbox' = outbox
    \/ \A raw \in RawTokens :
           (\A u \in Users : users[u].reset_token # hash_token(raw)) =>
               /\ \A inc \in BOOLEAN : ~VerifyResetToken(raw, inc)
               /\ \A i \in ResetInputs :
                      i.raw = raw => ~ResetPassword(raw, i.new, i.confirm)

\* C35: a verify_reset_token or reset_password call presenting a raw token
\* whose digest matches no principal's stored reset token changes no state:
\* no attempt counter, reset token, expiry or password hash is modified,
\* however many such calls are made
C35_UnknownTokenChangesNothing == [][C35_Miss_a]_vars

\* A token that matches nobody was presented while a principal held a live
\* reset token and had attempts counted
C35_Witness ==
    /\ pcall.op \in {"verify", "consume"}
    /\ pcall.why = "notfound"
    /\ \E u \in Users :
           /\ users[u].reset_token # NoToken
           /\ users[u].reset_attempts > 0

\* ---------------------------------------------------------------------------
\* POST /auth/resend-reset-email (app/routers/auth.py)

\* What resend_reset_email answers for `email` now: 429 when the user exists
\* and its token was created less than MIN_REQUEST_INTERVAL_MINUTES ago, else
\* whatever request_password_reset returns
resend_reset_email(email) ==
    IF /\ email \in Users
       /\ users[email].reset_token_expires # Null
       /\ now - (users[email].reset_token_expires - ResetExpiry)
              < MIN_REQUEST_INTERVAL_MINUTES
    THEN "429"
    ELSE success_message

\* resend_reset_email(request): the 429 is raised before anything is written,
\* otherwise the request is handed to request_password_reset
ResendResetEmail(email) ==
    IF resend_reset_email(email) = "429"
    THEN /\ pcall' = [op |-> "resend", n |-> 1 - pcall.n, why |-> "toosoon",
                      resp |-> "429"]
         /\ UNCHANGED <<likes, redis, preq, ideas, loop, now, users, refresh_tokens, nextId,
                        nextRaw, rreq, lreq, outbox, access, acall>>
    ELSE RequestPasswordReset(email)

NextResend ==
    \/ NextReset
    \/ \E e \in Users \cup {UnknownEmail} : ResendResetEmail(e)

\* The password-reset calls together with the resend route
SpecResend == Init /\ [][NextResend]_vars

\* C33: the response of POST /auth/resend-reset-email does not depend on
\* whether a principal with the given email exists: whatever the principal's
\* reset state, the answer is the one an unknown email is given
C33_ResendSameForUnknown ==
    /\ \A e \in Users : resend_reset_email(e) = resend_reset_email(UnknownEmail)
    /\ pcall.op = "resend" => pcall.resp = resend_reset_email(UnknownEmail)

\* ---------------------------------------------------------------------------
\* Sessions across a password reset: logins, refreshes and the reset calls

NextResetSessions ==
    \/ Tick(ResetStep, MaxResetTicks * ResetStep)
    \/ \E u \in Users : LoginIssue(u)
    \/ \E e \in Users : RequestPasswordReset(e)
    \/ \E i \in ResetInputs : ResetPassword(i.raw, i.new, i.confirm)
    \/ \E r \in SessionReqs, raw \in 1..(nextRaw - 1) : RefreshVerify(r, raw)
    \/ \E r \in SessionReqs : RefreshRevoke(r)
    \/ \E r \in SessionReqs : RefreshIssue(r)

SpecResetSessions == Init /\ [][NextResetSessions]_vars

\* A refresh request passes verify_refresh_token in this step with a record
\* that was created before its principal's password was last changed
C34_Refresh_a ==
    \A r \in SessionReqs :
        (rreq[r].pc = "start" /\ rreq'[r].pc = "verified") =>
            \A t \in RowById(rreq'[r].tid) :
                LET changed == users[t.user_id].password_changed_at
                    issued == t.expires_at
                                  - REFRESH_TOKEN_EXPIRE_DAYS * MinutesPerDay
                IN  changed # Null => issued >= changed

LegacyLogout(r, raw) ==
    /\ rreq[r].pc = "start" /\ ~Finished(rreq[r])
    /\ \A q \in 1..(r - 1) : rreq[q].pc # "start" \/ Finished(rreq[q])
    /\ refresh_tokens' =
           {IF t \in UnrevokedRows(raw) THEN [t EXCEPT !.revoked = TRUE]
            ELSE t : t \in refresh_tokens}
    /\ rreq' = [rreq EXCEPT ![r] =
                    [@ EXCEPT !.pc = "legacy_logout", !.raw = raw,
                              !.status = 200, !.cleared = BothCookies]]
    /\ UNCHANGED <<likes, redis, preq, ideas, loop, now, nextId, nextRaw, users, lreq, outbox,
                   pcall, access, acall>>

NextLegacyLogout ==
    \/ Tick(RefreshStep, MaxRefreshTicks * RefreshStep)
    \/ \E u \in Users : LegacyCreateRefreshTokenEntry(u)
    \/ \E r \in RefreshReqs, raw \in 1..(nextRaw - 1) : LegacyLogout(r, raw)
    \/ \E r \in RefreshReqs, raw \in 1..(nextRaw - 1) :
           LegacyVerifyRefreshToken(r, raw)

\* Logins, logouts and refreshes of the legacy variant
SpecLegacyLogout == Init /\ [][NextLegacyLogout]_vars

\* A refresh passes the legacy verify_refresh_token in this step with a token
\* that an earlier logout presented
C36_Refresh_a ==
    \A r, q \in RefreshReqs :
        (/\ rreq[q].pc = "legacy_logout"
         /\ rreq[r].pc = "start"
         /\ rreq'[r].pc = "legacy_verified") => rreq'[r].raw # rreq[q].raw

\* C36: in the legacy variant, logout invalidates the presented refresh token
\* on the server side: after a logout presenting a raw token T issued by the
\* legacy create_refresh_token_entry, a refresh presenting T fails
C36_LegacyLogoutInvalidates == [][C36_Refresh_a]_vars

\* ---------------------------------------------------------------------------
\* Soft-deleted ideas

\* get_idea_by_id and get_multi_ideas select with is_deleted false: the ideas
\* a read of idea i can return (the visibility tests may still withhold it)
get_idea_by_id(i) ==
    IF ideas[i] # NoIdea /\ ~ideas[i].is_deleted THEN {i} ELSE {}

C39_Deleted_a ==
    \A i \in Ideas :
        (ideas[i] # NoIdea /\ ideas[i].is_deleted) =>
            /\ get_idea_by_id(i) = {}
            /\ ideas'[i] = ideas[i]
            /\ (acall' # acall /\ acall'.idea = i) => acall'.status = 404

\* C39: once an idea has been soft-deleted it is never returned by
\* get_idea_by_id or get_multi_ideas, and no later update or delete request
\* modifies it: PUT on a soft-deleted idea creates no new version and DELETE
\* is refused as not found
C39_SoftDeletedIsGone == [][C39_Deleted_a]_vars

\* ---------------------------------------------------------------------------
\* Concurrent reset_password calls.  Every call runs in a session of its own:
\* it verifies the token, awaits the comparison with the current password and
\* the hashing of the new one, and then writes the row and commits.

\* The new passwords tried: one more than the reset flow names, so that two
\* calls can bring different passwords that both differ from the current one
ResetPasswords == 1..(NumPasswords + 1)

\* reset_password up to the hashing of the new password (the new password
\* equals its confirmation and is strong): verify_reset_token with
\* increment_attempts=False, then the comparison with the current password
ResetVerify(p, raw, new_password) ==
    LET res == verify_reset_token(raw, ResetIncrementsAttempts)
        q == [IdleReset EXCEPT !.raw = raw, !.password = new_password]
    IN  /\ preq[p].pc = "start"
        /\ \A o \in 1..(p - 1) : preq[o].pc # "start"
        /\ users' = res.users
        /\ preq' = [preq EXCEPT ![p] =
               IF res.why # "ok"
               THEN [q EXCEPT !.pc = "refused", !.status = 400]
               ELSE IF verify_hashed_password(new_password,
                           res.users[res.uid].password_hash)
               THEN [q EXCEPT !.pc = "same", !.uid = res.uid, !.status = 400]
               ELSE [q EXCEPT !.pc = "verified", !.uid = res.uid,
                              !.loaded = res.users[res.uid],
                              !.sess = res.users[res.uid]]]
        /\ UNCHANGED <<likes, redis, ideas, loop, now, refresh_tokens, nextId,
                       nextRaw, rreq, lreq, outbox, pcall, access, acall>>

\* reset_password from the assignment of the new hash on: the row is written
\* from the session's copy and committed
ResetCommit(p) ==
    /\ preq[p].pc = "verified"
    /\ LET q == preq[p]
           s1 == CompleteReset(q.sess, q.password, now)
       IN  /\ users' = [users EXCEPT ![q.uid] = Flush(@, q.loaded, s1)]
           /\ preq' = [preq EXCEPT ![p] =
                  [q EXCEPT !.pc = "done", !.sess = s1, !.status = 200]]
    /\ UNCHANGED <<likes, redis, ideas, loop, now, refresh_tokens, nextId,
                   nextRaw, rreq, lreq, outbox, pcall, access, acall>>

NextConcurrentReset ==
    \/ Tick(ResetStep, MaxResetTicks * ResetStep)
    \/ Tick(ResetExpiry, ResetExpiry + MaxResetTicks * ResetStep)
    \/ \E e \in Users : RequestPasswordReset(e)
    \/ \E p \in ResetReqs, raw \in RawTokens, w \in ResetPasswords :
           ResetVerify(p, raw, w)
    \/ \E p \in ResetReqs : ResetCommit(p)

\* reset_password calls whose requests overlap
SpecConcurrentReset == Init /\ [][NextConcurrentReset]_vars

\* C31: under concurrent reset_password calls presenting the same valid reset
\* token with different new passwords, at most one call succeeds in setting
\* the password; the others fail with an invalid-token error
C31_AtMostOneResetSucceeds ==
    \A p, o \in ResetReqs :
        (/\ p # o
         /\ preq[p].raw = preq[o].raw
         /\ preq[p].password # preq[o].password
         /\ preq[p].status = 200) => preq[o].status # 200

\* ---------------------------------------------------------------------------
\* Rate limiting (app/core/rate_limiter.py), for the key of one client IP

\* The Redis clock is observed at half the window's grain, in seconds
RateStep == TIME_WINDOW \div 2

\* Redis time passes; a key whose expiry time has come is gone
RedisTick ==
    /\ redis.t + RateStep <= MaxRateTicks * RateStep
    /\ redis' = [redis EXCEPT !.t = @ + RateStep]
    /\ UNCHANGED <<likes, preq, ideas, loop, now, users, refresh_tokens,
                   nextId, nextRaw, rreq, lreq, outbox, pcall, access, acall>>

\* rate_limit(request): INCR of the key (created at 1 when absent or expired)
\* and EXPIRE key TIME_WINDOW in one pipeline, then 429 when the count read
\* back exceeds RATE_LIMIT
rate_limit ==
    /\ Len(redis.made) < MaxRequests
    /\ LET alive == redis.expire_at # Null /\ redis.t < redis.expire_at
           current_count == (IF alive THEN redis.count ELSE 0) + 1
       IN  redis' = [redis EXCEPT
                        !.count = current_count,
                        !.expire_at = redis.t + TIME_WINDOW,
                        !.made = Append(@, redis.t),
                        !.status = IF current_count > RATE_LIMIT
                                   THEN 429 ELSE 200]
    /\ UNCHANGED <<likes, preq, ideas, loop, now, users, refresh_tokens,
                   nextId, nextRaw, rreq, lreq, outbox, pcall, access, acall>>

NextRateLimit ==
    \/ RedisTick
    \/ rate_limit

\* Requests of one client passing through rate_limit as time goes by
SpecRateLimit == Init /\ [][NextRateLimit]_vars

\* C37: rate_limit rejects a request with 429 only if the client has made
\* more than 5 requests within the preceding 60 seconds (the rejected one
\* and one made exactly 60 seconds earlier included); a client that never makes more than 5 requests in any 60-second
\* span is never rejected
C37_RejectedOnlyOverLimit ==
    redis.status = 429 =>
        LET last == redis.made[Len(redis.made)]
        IN  Cardinality({k \in 1..Len(redis.made) :
                            redis.made[k] >= last - TIME_WINDOW}) > RATE_LIMIT

\* ---------------------------------------------------------------------------
\* Likes (app/routers/likes.py).  Every request runs in a session of its own:
\* it selects the post and the caller's like, and then writes and commits.

\* post_like up to the test of existing_like: the post is selected (404 when
\* there is none), then the caller's PostLike row
LikeLoad(k, post, user) ==
    /\ likes.req[k].pc = "start"
    /\ \A o \in 1..(k - 1) : likes.req[o].pc # "start"
    /\ likes' = [likes EXCEPT !.req[k] =
           IF ideas[post] = NoIdea
           THEN [IdleLike EXCEPT !.pc = "done", !.post = post, !.user = user,
                                 !.status = 404]
           ELSE [IdleLike EXCEPT !.pc = "loaded", !.post = post, !.user = user,
                                 !.existing = <<post, user>> \in likes.rows,
                                 !.seen = likes.likes_count[post]]]
    /\ UNCHANGED <<redis, preq, ideas, loop, now, users, refresh_tokens,
                   nextId, nextRaw, rreq, lreq, outbox, pcall, access, acall>>

\* max(0, n): the larger of the two
max(a, b) == IF a >= b THEN a ELSE b

\* post_like from the test of existing_like on.  Unlike: the row is deleted
\* and likes_count set to max(0, the count read - 1).  Like: the row is
\* inserted and likes_count set to the count read + 1; when the row is there
\* already the unique constraint fails the commit, which writes nothing, and
\* the request ends with 500
LikeCommit(k) ==
    /\ likes.req[k].pc = "loaded"
    /\ LET q == likes.req[k]
           row == <<q.post, q.user>>
       IN  likes' =
               IF q.existing
               THEN [likes EXCEPT
                        !.rows = @ \ {row},
                        !.likes_count[q.post] = max(0, q.seen - 1),
                        !.req[k] = [q EXCEPT !.pc = "done", !.status = 200]]
               ELSE IF row \in likes.rows
               THEN [likes EXCEPT
                        !.req[k] = [q EXCEPT !.pc = "done", !.status = 500]]
               ELSE [likes EXCEPT
                        !.rows = @ \cup {row},
                        !.likes_count[q.post] = q.seen + 1,
                        !.req[k] = [q EXCEPT !.pc = "done", !.status = 200]]
    /\ UNCHANGED <<redis, preq, ideas, loop, now, users, refresh_tokens,
                   nextId, nextRaw, rreq, lreq, outbox, pcall, access, acall>>

NextLikes ==
    \/ \E i \in Ideas : CreateIdea(i, OtherAuthor)
    \/ \E k \in LikeReqs, i \in Ideas, u \in Likers : LikeLoad(k, i, u)
    \/ \E k \in LikeReqs : LikeCommit(k)

\* Like requests whose handlers overlap
SpecLikes == Init /\ [][NextLikes]_vars

\* C38: in every reachable state, including under concurrent toggle requests
\* by the same or different users, the idea's likes_count equals the number of
\* PostLike rows for that idea and is never negative
C38_LikesCountMatchesRows ==
    \A i \in Ideas :
        /\ likes.likes_count[i] >= 0
        /\ likes.likes_count[i] =
               Cardinality({row \in likes.rows : row[1] = i})

====
